---- MODULE Spec2Model ----
(***************************************************************************)
(* hwinarion: the action dispatcher (dispatcher/__init__.py), the session  *)
(* recorder action (actors/action_recorder.py) and the background listener *)
(* (listeners/base.py), as a state machine.                                *)
(***************************************************************************)
EXTENDS Integers, Sequences, FiniteSets, TLC

\* ------------------------------------------------------------------ bounds
\* the longest list of registered actions
MaxActions == 2
\* the number of texts the text stream yields to one run()
MaxTexts == 3
\* the number of utterances the wrapped listener's listen() returns
MaxUtterances == 2
\* the number of background threads a BackgroundListener starts
MaxThreads == 2
\* the longest audio source, in frames
MaxFrames == 3

\* the number of direct calls of act()
MaxCalls == 4
\* the longest AudioSample that is sliced, in frames
MaxSampleFrames == 3

\* calls of act() on the recorder over its sessions
MaxSessionCalls == 6

\* SilenceBasedStateLabeler's default silence_threshold_rms
silence_threshold_rms == 500

\* MouseMover.SPEED_NORMAL
SPEED_NORMAL == 244

\* ------------------------------------------------------------------ values
TEXT_PROCESSED == "TEXT_PROCESSED"
TEXT_NOT_PROCESSED == "TEXT_NOT_PROCESSED"
PROCESS_FUTURE_TEXT == "PROCESS_FUTURE_TEXT"
ActProcessResult == {TEXT_PROCESSED, TEXT_NOT_PROCESSED, PROCESS_FUTURE_TEXT}
\* a call of act() that ends by raising an exception instead of returning
RAISES == "raises"

NOT_RECORDING == "NOT_RECORDING"
RECORDING == "RECORDING"
RecordingState == {NOT_RECORDING, RECORDING}

\* Python's None, where an action is expected
NoAction == "None"
\* the one ActionRecorderAction, and the other actions (any BaseAction)
Recorder == "ActionRecorder"
OtherActions == {"A", "B"}
ActionIds == OtherActions \cup {Recorder}

\* the non-empty texts a speech-to-text engine hands over
Texts == {"record action", "Stop Recording", "go left"}

\* str.lower() on Texts
Lower(text) ==
    IF text = "Stop Recording" THEN "stop recording" ELSE text

\* who made a call of act(): run() on the focused action, _act_on_text called by
\* run(), or _act_on_text called by the recorder's _perform_action
ByFocus == "focus"
ByScan == "scan"
ByDelegate == "delegate"

VARIABLES
    actions,     \* BaseDispatcher.actions
    enabled,     \* the recorder's BaseAction.enabled
    focus,       \* run()'s action_to_consider_first
    recState,    \* ActionRecorderAction._state
    recorded,    \* ActionRecorderAction._recorded_actions
    saved,       \* the files _save_recording has written, in order
    dpc,         \* where the dispatcher is: "setup", "loop", "done"
    nTexts,      \* how many texts run() has been handed
    lastText,    \* the text of the latest iteration of run()'s loop
    focusBefore, \* action_to_consider_first when that iteration began
    offers,      \* the calls of act() that iteration made, in call order
    lastScan,    \* what that iteration's call of _act_on_text returned
    thread,      \* BackgroundListener._thread: 0 for None, or a thread
    tpc,         \* where each background thread is in _listen
    queue,       \* BackgroundListener.queue
    nHeard,      \* how many utterances listen() has returned
    called,      \* the latest call of start() or stop() and how it ended
    audio,       \* _get_transcribed_text's audio
    transcribed_text, \* _get_transcribed_text's transcribed_text
    stt_calls,   \* the calls of transcribe_audio: the audio and the text returned
    yielded,     \* the texts _get_transcribed_text has yielded, in order
    joining,     \* the thread a stop() called by the dispatcher is joining, or 0
    error,       \* the exception run() is ending with, or ""
    held,        \* _listen's audio in each thread: returned by listen(), not yet put
    got,         \* what the calls of BackgroundListener.get() have returned, in order
    stopping,    \* the call of stop() that has not returned yet
    stopCalled,  \* the threads Stop_Call has begun to join (kept for ListenerSpec)
    source,      \* BaseListener.source: the frames its read() returns, in order
    frame_index, \* how many frames of the source have been read
    labeler,     \* which _determine_frame_state the listener has
    lpc,         \* where the listener is in listen(): "idle", "loop", "returned", "raised"
    all_frames,  \* listen_frames' all_frames
    frame,       \* listen_frames' frame
    frame_state, \* listen_frames' frame_state
    audio_sample, \* what the latest listen() returned
    first_index, \* frame_index when the latest listen() began
    nListens,    \* how many calls of listen() have begun
    start_calls, \* how many times run() has called self.listener.start()
    stop_calls,  \* how many times run()'s finally has called stop_listening()
    mouse_enabled,  \* MouseAction.enabled
    mouse_queue,    \* MouseMover.queue: the requests put and not yet taken
    mapper_enabled, \* StringLiteralActor.enabled
    handled,     \* the texts the trigger table's handlers have been called with
    acted,       \* the latest direct call of an action's act() and what it returned
    nCalls,      \* how many direct calls of act() have been made
    original,    \* an AudioSample
    halves,      \* the two samples slice_frame has cut from it, or <<>>
    rejoined,    \* the first half with the second appended, or NoSample
    listener,    \* BaseDispatcher.listener: which of two BackgroundListeners
    speech_to_text, \* BaseDispatcher.speech_to_text: which of two engines
    threads,     \* each BackgroundListener's _thread: 0 for None, or a thread
    queues,      \* each BackgroundListener's queue
    getting,     \* the call of self.listener.get() the text stream is inside
    pulls,       \* what the text stream's calls of get() have returned, in order
    transcriptions, \* the text stream's calls of transcribe_audio, in order
    setting,     \* where the call of set_listener is
    session      \* the texts the recorder was handed since the latest "record action"

rvars == <<actions, enabled, focus, recState, recorded, saved, nTexts,
           lastText, focusBefore, offers, lastScan>>
pvars == <<thread, tpc, queue, nHeard, called, audio, transcribed_text, stt_calls,
           yielded, joining, error>>
lvars == <<held, got, stopping, stopCalled>>
fvars == <<source, frame_index, labeler, lpc, all_frames, frame, frame_state,
           audio_sample, first_index, nListens>>
cvars == <<start_calls, stop_calls>>
avars == <<mouse_enabled, mouse_queue, mapper_enabled, handled, acted, nCalls>>
svars == <<original, halves, rejoined>>
hvars == <<listener, speech_to_text, threads, queues, getting, pulls,
           transcriptions, setting, session>>
xvars == <<cvars, avars, svars, hvars>>
vars == <<rvars, dpc, pvars, lvars, fvars, xvars>>

\* ------------------------------------------------------- the recorder's state
\* _recorded_actions is None until the first "record action"
NoList == [none |-> TRUE, items |-> <<>>]
EmptyList == [none |-> FALSE, items |-> <<>>]

\* the part of the program's state that a call of act() can change, and the
\* calls of act() made so far
World(rs, rec, sv, log) == [rs |-> rs, rec |-> rec, sv |-> sv, log |-> log]

Offer(pos, action, result, by) ==
    [pos |-> pos, action |-> action, result |-> result, by |-> by]

NoScan == [called |-> FALSE, winner |-> NoAction, result |-> TEXT_NOT_PROCESSED]

\* the latest of the calls of act() in the log ended by raising
Raised(log) == log # <<>> /\ log[Len(log)].result = RAISES

RECURSIVE ActOnTextFrom(_, _, _, _, _, _, _, _)
RECURSIVE Act(_, _, _, _, _, _)

\* _perform_action appending a record only for a text some action handled
PerformAction_RecordsOnlyHandled(text, w, resp, resp2) ==
    LET s == ActOnTextFrom(1, text, {Recorder}, TRUE, ByDelegate, w, resp, resp2)
        entry == [text |-> text, action |-> s.winner, process_result |-> s.result]
    IN  IF s.winner = NoAction \/ s.result = RAISES
        THEN s.w
        ELSE [s.w EXCEPT !.rec = [@ EXCEPT !.items = Append(@, entry)]]

\* ActionRecorderAction._perform_action: delegate to the other actions and append
\* one record; an exception of _act_on_text is not caught, and nothing is appended
PerformAction(text, w, resp, resp2) ==
    LET s == ActOnTextFrom(1, text, {Recorder}, TRUE, ByDelegate, w, resp, resp2)
        entry == [text |-> text, action |-> s.winner, process_result |-> s.result]
    IN  IF s.result = RAISES
        THEN s.w
        ELSE [s.w EXCEPT !.rec = [@ EXCEPT !.items = Append(@, entry)]]

\* _save_recording without line 62: the file is written and the list kept
SaveRecording_KeepsList(w) ==
    [w EXCEPT !.sv = Append(@, w.rec.items)]

\* ActionRecorderAction._save_recording: one file, then an empty list
SaveRecording(w) ==
    [w EXCEPT !.sv = Append(@, w.rec.items), !.rec = EmptyList]

\* act() handing back what the delegation returned while recording, not
\* PROCESS_FUTURE_TEXT
RecorderAct_ReturnsDelegatedResult(text, w, resp, resp2) ==
    IF ~enabled
    THEN [result |-> TEXT_NOT_PROCESSED, w |-> w]
    ELSE IF w.rs = RECORDING /\ Lower(text) = "stop recording"
    THEN [result |-> TEXT_PROCESSED,
          w |-> [SaveRecording(w) EXCEPT !.rs = NOT_RECORDING]]
    ELSE IF w.rs = RECORDING
    THEN LET w2 == PerformAction(text, w, resp, resp2)
         IN  [result |-> IF Raised(w2.log) THEN RAISES
                         ELSE w2.rec.items[Len(w2.rec.items)].process_result,
              w |-> w2]
    ELSE IF Lower(text) = "record action"
    THEN [result |-> PROCESS_FUTURE_TEXT,
          w |-> [w EXCEPT !.rs = RECORDING, !.rec = EmptyList]]
    ELSE [result |-> TEXT_NOT_PROCESSED, w |-> w]

\* act() without the state test of line 68: "stop recording" saves in any state
RecorderAct_StopSavesInAnyState(text, w, resp, resp2) ==
    IF ~enabled
    THEN [result |-> TEXT_NOT_PROCESSED, w |-> w]
    ELSE IF Lower(text) = "stop recording"
    THEN [result |-> TEXT_PROCESSED,
          w |-> [SaveRecording(w) EXCEPT !.rs = NOT_RECORDING]]
    ELSE IF w.rs = RECORDING
    THEN LET w2 == PerformAction(text, w, resp, resp2)
         IN  [result |-> IF Raised(w2.log) THEN RAISES ELSE PROCESS_FUTURE_TEXT,
              w |-> w2]
    ELSE IF Lower(text) = "record action"
    THEN [result |-> PROCESS_FUTURE_TEXT,
          w |-> [w EXCEPT !.rs = RECORDING, !.rec = EmptyList]]
    ELSE [result |-> TEXT_NOT_PROCESSED, w |-> w]

\* ActionRecorderAction.act
RecorderAct(text, w, resp, resp2) ==
    IF ~enabled
    THEN [result |-> TEXT_NOT_PROCESSED, w |-> w]
    ELSE IF w.rs = RECORDING /\ Lower(text) = "stop recording"
    THEN [result |-> TEXT_PROCESSED,
          w |-> [SaveRecording(w) EXCEPT !.rs = NOT_RECORDING]]
    ELSE IF w.rs = RECORDING
    THEN LET w2 == PerformAction(text, w, resp, resp2)
         IN  [result |-> IF Raised(w2.log) THEN RAISES ELSE PROCESS_FUTURE_TEXT,
              w |-> w2]
    ELSE IF Lower(text) = "record action"
    THEN [result |-> PROCESS_FUTURE_TEXT,
          w |-> [w EXCEPT !.rs = RECORDING, !.rec = EmptyList]]
    ELSE [result |-> TEXT_NOT_PROCESSED, w |-> w]

\* BaseAction.act of any other action: what it answers is up to the action; resp is
\* its answer to act(text), resp2 its answer to act(text, get_recording_data=True);
\* an answer of RAISES is an exception
OtherAct(action, get_recording_data, w, resp, resp2) ==
    [result |-> IF get_recording_data THEN resp2[action] ELSE resp[action], w |-> w]

\* action.act(text, get_recording_data=...)
Act(action, text, get_recording_data, w, resp, resp2) ==
    IF action = Recorder
    THEN RecorderAct(text, w, resp, resp2)
    ELSE OtherAct(action, get_recording_data, w, resp, resp2)

\* the loop without its return on PROCESS_FUTURE_TEXT (lines 108-110 dropped)
ActOnTextFrom_StopsOnlyOnProcessed(i, text, skip_actions, get_recording_data, by, w, resp, resp2) ==
    IF i > Len(actions)
    THEN [winner |-> NoAction, result |-> TEXT_NOT_PROCESSED, w |-> w]
    ELSE IF actions[i] \in skip_actions
    THEN ActOnTextFrom(i + 1, text, skip_actions, get_recording_data, by, w, resp, resp2)
    ELSE LET a == Act(actions[i], text, get_recording_data,
                      [w EXCEPT !.log = <<>>], resp, resp2)
             w2 == [a.w EXCEPT
                      !.log = Append(w.log, Offer(i, actions[i], a.result, by)) \o @]
         IN  IF a.result = RAISES
             THEN [winner |-> NoAction, result |-> RAISES, w |-> w2]
             ELSE IF a.result = TEXT_PROCESSED
             THEN [winner |-> actions[i], result |-> a.result, w |-> w2]
             ELSE ActOnTextFrom(i + 1, text, skip_actions, get_recording_data, by,
                                w2, resp, resp2)

\* the for loop of BaseDispatcher._act_on_text, from position i of self.actions;
\* an exception of act() is not caught and leaves the loop
ActOnTextFrom(i, text, skip_actions, get_recording_data, by, w, resp, resp2) ==
    IF i > Len(actions)
    THEN [winner |-> NoAction, result |-> TEXT_NOT_PROCESSED, w |-> w]
    ELSE IF actions[i] \in skip_actions
    THEN ActOnTextFrom(i + 1, text, skip_actions, get_recording_data, by, w, resp, resp2)
    ELSE LET a == Act(actions[i], text, get_recording_data,
                      [w EXCEPT !.log = <<>>], resp, resp2)
             w2 == [a.w EXCEPT
                      !.log = Append(w.log, Offer(i, actions[i], a.result, by)) \o @]
         IN  IF a.result = RAISES
             THEN [winner |-> NoAction, result |-> RAISES, w |-> w2]
             ELSE IF a.result \in {TEXT_PROCESSED, PROCESS_FUTURE_TEXT}
             THEN [winner |-> actions[i], result |-> a.result, w |-> w2]
             ELSE ActOnTextFrom(i + 1, text, skip_actions, get_recording_data, by,
                                w2, resp, resp2)

\* BaseDispatcher._act_on_text(text, skip_actions), called by run()
ActOnText(text, skip_actions, w, resp, resp2) ==
    ActOnTextFrom(1, text, skip_actions, FALSE, ByScan, w, resp, resp2)

\* the focused branch with line 129 dropped: TEXT_PROCESSED leaves the focus
RunFocused_KeepsFocusOnProcessed(text, first, w, resp, resp2) ==
    LET a == Act(first, text, FALSE, [w EXCEPT !.log = <<>>], resp, resp2)
        w2 == [a.w EXCEPT !.log = <<Offer(0, first, a.result, ByFocus)>> \o @]
    IN  IF a.result = TEXT_NOT_PROCESSED
        THEN LET s == ActOnText(text, {first}, w2, resp, resp2)
             IN  [first |-> s.winner,
                  scan |-> [called |-> TRUE, winner |-> s.winner, result |-> s.result],
                  w |-> s.w]
        ELSE [first |-> first, scan |-> NoScan, w |-> w2]

\* the focused branch with line 130 an else: every answer but TEXT_PROCESSED goes
\* on to the other actions
RunFocused_ScansOnFutureText(text, first, w, resp, resp2) ==
    LET a == Act(first, text, FALSE, [w EXCEPT !.log = <<>>], resp, resp2)
        w2 == [a.w EXCEPT !.log = <<Offer(0, first, a.result, ByFocus)>> \o @]
    IN  IF a.result = TEXT_PROCESSED
        THEN [first |-> NoAction, scan |-> NoScan, w |-> w2]
        ELSE LET s == ActOnText(text, {first}, w2, resp, resp2)
             IN  [first |-> s.winner,
                  scan |-> [called |-> TRUE, winner |-> s.winner, result |-> s.result],
                  w |-> s.w]

\* the focused branch with line 132 taking the focus only from a winner: an
\* unclaimed text leaves the focus where it was
RunFocused_KeepsFocusWhenUnclaimed(text, first, w, resp, resp2) ==
    LET a == Act(first, text, FALSE, [w EXCEPT !.log = <<>>], resp, resp2)
        w2 == [a.w EXCEPT !.log = <<Offer(0, first, a.result, ByFocus)>> \o @]
    IN  IF a.result = TEXT_PROCESSED
        THEN [first |-> NoAction, scan |-> NoScan, w |-> w2]
        ELSE IF a.result = TEXT_NOT_PROCESSED
        THEN LET s == ActOnText(text, {first}, w2, resp, resp2)
             IN  [first |-> IF s.winner = NoAction THEN first ELSE s.winner,
                  scan |-> [called |-> TRUE, winner |-> s.winner, result |-> s.result],
                  w |-> s.w]
        ELSE [first |-> first, scan |-> NoScan, w |-> w2]

\* run(), lines 124-133: the focused action is tried first
RunFocused(text, first, w, resp, resp2) ==
    LET a == Act(first, text, FALSE, [w EXCEPT !.log = <<>>], resp, resp2)
        w2 == [a.w EXCEPT !.log = <<Offer(0, first, a.result, ByFocus)>> \o @]
    IN  IF a.result = TEXT_PROCESSED
        THEN [first |-> NoAction, scan |-> NoScan, w |-> w2]
        ELSE IF a.result = TEXT_NOT_PROCESSED
        THEN LET s == ActOnText(text, {first}, w2, resp, resp2)
             IN  [first |-> s.winner,
                  scan |-> [called |-> TRUE, winner |-> s.winner, result |-> s.result],
                  w |-> s.w]
        ELSE [first |-> first, scan |-> NoScan, w |-> w2]

\* the unfocused branch with lines 136-137 dropped: nobody gets the focus
RunUnfocused_NeverFocuses(text, w, resp, resp2) ==
    LET s == ActOnText(text, {}, w, resp, resp2)
    IN  [first |-> NoAction,
         scan |-> [called |-> TRUE, winner |-> s.winner, result |-> s.result],
         w |-> s.w]

\* run(), lines 134-138: no action holds the focus
RunUnfocused(text, w, resp, resp2) ==
    LET s == ActOnText(text, {}, w, resp, resp2)
    IN  [first |-> IF s.result = PROCESS_FUTURE_TEXT THEN s.winner ELSE NoAction,
         scan |-> [called |-> TRUE, winner |-> s.winner, result |-> s.result],
         w |-> s.w]

\* an iteration in which _act_on_text itself hands the focus to whoever answers
\* it PROCESS_FUTURE_TEXT, the recorder's delegated calls included
RunBody_ActOnTextSetsFocus(text, first, w, resp, resp2) ==
    LET r == IF first # NoAction
             THEN RunFocused(text, first, w, resp, resp2)
             ELSE RunUnfocused(text, w, resp, resp2)
        claims == {k \in 1..Len(r.w.log) :
                     /\ r.w.log[k].by = ByDelegate
                     /\ r.w.log[k].result = PROCESS_FUTURE_TEXT}
    IN  IF claims = {}
        THEN r
        ELSE [r EXCEPT !.first = r.w.log[CHOOSE k \in claims : TRUE].action]

\* one iteration of the for loop of run()
RunBody(text, first, w, resp, resp2) ==
    IF first # NoAction
    THEN RunFocused(text, first, w, resp, resp2)
    ELSE RunUnfocused(text, w, resp, resp2)

\* ------------------------------------------------------ the background listener
Threads == 1..MaxThreads

\* no call of start() or stop() yet
NoCall == [op |-> "none", result |-> "none"]

\* no call of stop() is waiting in its join
NoStop == [timeout |-> "none", target |-> 0]

\* Thread.is_alive(): started and not yet finished
IsAlive(t) == tpc[t] \in {"while", "is_alive", "listen", "put"}

\* BackgroundListener.is_listening
IsListening == thread # 0 /\ IsAlive(thread)

\* the threads not yet started
Unborn == {t \in Threads : tpc[t] = "unborn"}

\* self.listener.empty() on a BackgroundListener: the class defines start, stop,
\* is_listening, _listen and get and no empty, so the call raises AttributeError
ListenerEmpty(q) == [raises |-> TRUE, value |-> q = <<>>]

\* the transcriptions a speech-to-text engine returns: a text, or the empty string
Transcriptions == Texts \cup {""}

\* ----------------------------------------------------------- the listener's frames
LISTEN == "LISTEN"
PAUSE == "PAUSE"
STOP == "STOP"
FrameStateEnum == {LISTEN, PAUSE, STOP}

\* a frame as the source's read() returns it: its position in the source (from
\* 0), its rms and its length (n_frames, and n_seconds in units of one frame period)
AudioFrame(id, rms, len) == [id |-> id, rms |-> rms, len |-> len]

\* Python's None, where a frame is expected
NoFrame == [id |-> -1, rms |-> 0, len |-> 0]

AnnotatedFrame(f, state) == [frame |-> f, state |-> state]

\* an AudioSample's data: one entry per frame period, tagged with the position of
\* the source frame it comes from; NoSample is Python's None
NoSample == [none |-> TRUE, data |-> <<>>]
SampleOf(f) == [none |-> FALSE, data |-> [k \in 1..f.len |-> f.id]]

\* AudioSample.append with crossfade 0
AppendSample(final_sample, sample) ==
    [final_sample EXCEPT !.none = FALSE, !.data = @ \o sample.data]

\* AudioSample.n_seconds
NSeconds(sample) == Len(sample.data)

\* the for loop of AudioSample.from_iterable
RECURSIVE FromIterableFrom(_, _)
FromIterableFrom(final_sample, audio_samples) ==
    IF audio_samples = <<>>
    THEN final_sample
    ELSE FromIterableFrom(IF final_sample.none
                          THEN Head(audio_samples)
                          ELSE AppendSample(final_sample, Head(audio_samples)),
                          Tail(audio_samples))

\* AudioSample.from_iterable: None for no samples at all
FromIterable(audio_samples) == FromIterableFrom(NoSample, audio_samples)

\* the labelers a listener can have: the silence-based and the time-based one, and
\* any other callable (ConfigurableListener)
SilenceBased == [kind |-> "silence", total_duration |-> 0]
TimeBased(total_duration) == [kind |-> "time", total_duration |-> total_duration]
Configurable == [kind |-> "configurable", total_duration |-> 0]

\* the labeler without its leading-silence case: silence is STOP at once
SilenceBasedLabel_StopsOnLeadingSilence(latest_frame, frames) ==
    IF latest_frame.rms > silence_threshold_rms
    THEN LISTEN
    ELSE STOP

\* the labeler without its test of the last state: silence after any frame stops
SilenceBasedLabel_StopsOnSecondSilence(latest_frame, frames) ==
    IF latest_frame.rms > silence_threshold_rms
    THEN LISTEN
    ELSE IF Len(frames) = 0
    THEN PAUSE
    ELSE STOP

\* the labeler with >= for >: a frame at the threshold counts as speech
SilenceBasedLabel_AtOrAbove(latest_frame, frames) ==
    IF latest_frame.rms >= silence_threshold_rms
    THEN LISTEN
    ELSE IF Len(frames) = 0 \/ frames[Len(frames)].state = PAUSE
    THEN PAUSE
    ELSE STOP

\* SilenceBasedStateLabeler.__call__
SilenceBasedLabel(latest_frame, frames) ==
    IF latest_frame.rms > silence_threshold_rms
    THEN LISTEN
    ELSE IF Len(frames) = 0 \/ frames[Len(frames)].state = PAUSE
    THEN PAUSE
    ELSE STOP

\* sum(frame.frame.n_seconds for frame in all_frames)
RECURSIVE SumSeconds(_)
SumSeconds(frames) ==
    IF frames = <<>> THEN 0 ELSE Head(frames).frame.len + SumSeconds(Tail(frames))

\* the labeler counting only the history, not the latest frame
TimeBasedLabel_IgnoresLatest(total_duration, latest_frame, frames) ==
    IF SumSeconds(frames) < total_duration /\ latest_frame.len > 0
    THEN LISTEN
    ELSE STOP

\* TimeBasedStateLabeler.__call__
TimeBasedLabel(total_duration, latest_frame, frames) ==
    IF SumSeconds(frames) + latest_frame.len < total_duration /\ latest_frame.len > 0
    THEN LISTEN
    ELSE STOP

\* BaseListener._determine_frame_state: the states the labeler may return
DetermineFrameState(latest_frame, frames) ==
    IF labeler.kind = "silence" THEN {SilenceBasedLabel(latest_frame, frames)}
    ELSE IF labeler.kind = "time"
    THEN {TimeBasedLabel(labeler.total_duration, latest_frame, frames)}
    ELSE FrameStateEnum

RECURSIVE FilterFrom(_, _, _)

\* the loop without its look back: only the LISTEN frames are kept
FilterFrom_OwnStateOnly(frames, previous_state, saved_frames) ==
    IF frames = <<>>
    THEN saved_frames
    ELSE FilterFrom(Tail(frames), Head(frames).state,
                    IF Head(frames).state = LISTEN
                    THEN Append(saved_frames, Head(frames))
                    ELSE saved_frames)

\* the for loop of BaseListener._filter_audio_samples
FilterFrom(frames, previous_state, saved_frames) ==
    IF frames = <<>>
    THEN saved_frames
    ELSE FilterFrom(Tail(frames), Head(frames).state,
                    IF Head(frames).state = LISTEN \/ previous_state = LISTEN
                    THEN Append(saved_frames, Head(frames))
                    ELSE saved_frames)

\* a filter that keeps every frame
FilterAudioSamples_KeepsAll(frames) == frames

\* BaseListener._filter_audio_samples
FilterAudioSamples(frames) == FilterFrom(frames, "None", <<>>)

\* BaseListener._join_audio_samples
JoinAudioSamples(frames) ==
    FromIterable([k \in 1..Len(frames) |-> SampleOf(frames[k].frame)])

\* a listener on which listen() has not been called
ListenerIdle ==
    /\ lpc = "idle"
    /\ frame_index = 0
    /\ all_frames = <<>>
    /\ frame = NoFrame
    /\ frame_state = "None"
    /\ audio_sample = NoSample
    /\ first_index = 0
    /\ nListens = 0

\* no direct call of an action's act() yet
NoActCall == [action |-> NoAction, text |-> "", enabled |-> TRUE, result |-> "None"]

\* run() has not been called; the actions are as their constructors leave them:
\* enabled, the mouse worker started with an empty queue
NoActorCalls ==
    /\ start_calls = 0
    /\ stop_calls = 0
    /\ mouse_enabled = TRUE
    /\ mouse_queue = <<>>
    /\ mapper_enabled = TRUE
    /\ handled = <<>>
    /\ acted = NoActCall
    /\ nCalls = 0

\* no sample has been sliced
NoSlicing ==
    /\ original = NoSample
    /\ halves = <<>>
    /\ rejoined = NoSample

\* a dispatcher on the first of two listeners and engines, before any swap; no
\* call of the recorder in a session
NoCallOfGet == [bl |-> 0, after |-> FALSE]
NotSetting == [at |-> "idle", start_listening |-> FALSE, during |-> ""]
NoSwap ==
    /\ listener = 1
    /\ speech_to_text = 1
    /\ threads = [bl \in {1, 2} |-> 0]
    /\ queues = [bl \in {1, 2} |-> <<>>]
    /\ getting = NoCallOfGet
    /\ pulls = <<>>
    /\ transcriptions = <<>>
    /\ setting = NotSetting
    /\ session = <<>>

\* ------------------------------------------------------------------ actions
Init ==
    /\ actions = <<>>
    /\ enabled = TRUE
    /\ focus = NoAction
    /\ recState = NOT_RECORDING
    /\ recorded = NoList
    /\ saved = <<>>
    /\ dpc = "setup"
    /\ nTexts = 0
    /\ lastText = ""
    /\ focusBefore = NoAction
    /\ offers = <<>>
    /\ lastScan = NoScan
    /\ thread = 0
    /\ tpc = [t \in Threads |-> "unborn"]
    /\ queue = <<>>
    /\ nHeard = 0
    /\ called = NoCall
    /\ audio = 0
    /\ transcribed_text = ""
    /\ stt_calls = <<>>
    /\ yielded = <<>>
    /\ joining = 0
    /\ error = ""
    /\ held = [t \in Threads |-> 0]
    /\ got = <<>>
    /\ stopping = NoStop
    /\ stopCalled = {}
    /\ ListenerIdle
    /\ NoActorCalls
    /\ NoSlicing
    /\ NoSwap
    /\ source = <<>>
    /\ labeler = SilenceBased

\* BaseDispatcher.register_action
RegisterAction(action) ==
    /\ dpc = "setup"
    /\ Len(actions) < MaxActions
    /\ actions' = Append(actions, action)
    /\ UNCHANGED <<enabled, focus, recState, recorded, saved, dpc, nTexts,
                   lastText, focusBefore, offers, lastScan, pvars, lvars, fvars, xvars>>

\* the recorder's enabled flag is set from outside
SetEnabled(b) ==
    /\ enabled # b
    /\ enabled' = b
    /\ UNCHANGED <<actions, focus, recState, recorded, saved, dpc, nTexts,
                   lastText, focusBefore, offers, lastScan, pvars, lvars, fvars, xvars>>

\* run() up to its for loop: action_to_consider_first = None
RunStart ==
    /\ dpc = "setup"
    /\ dpc' = "loop"
    /\ focus' = NoAction
    /\ UNCHANGED <<actions, enabled, recState, recorded, saved, nTexts,
                   lastText, focusBefore, offers, lastScan, pvars, lvars, fvars, xvars>>

\* the routing of one text: what one iteration of run()'s loop does to the state
Route(t, resp, resp2) ==
    LET r == RunBody(t, focus, World(recState, recorded, saved, <<>>), resp, resp2)
    IN  /\ focus' = r.first
        /\ recState' = r.w.rs
        /\ recorded' = r.w.rec
        /\ saved' = r.w.sv
        /\ offers' = r.w.log
        /\ lastScan' = r.scan
        /\ lastText' = t
        /\ focusBefore' = focus
        /\ nTexts' = nTexts + 1

\* what the other actions answer to one text: one answer each to act(text); their
\* answers to act(text, get_recording_data=True) are asked for only by the
\* recorder, which delegates only while it is enabled and recording
Answers == [OtherActions -> ActProcessResult]

\* the answers of the registered actions: an action that is not registered is
\* never asked, so its answer is left at one value
RegisteredAnswers ==
    {resp \in Answers :
        \A a \in OtherActions :
            (\A i \in 1..Len(actions) : actions[i] # a) => resp[a] = TEXT_NOT_PROCESSED}

DelegatedAnswers(resp) ==
    IF enabled /\ recState = RECORDING /\ (\E i \in 1..Len(actions) : actions[i] = Recorder)
    THEN RegisteredAnswers
    ELSE {resp}

\* run()'s loop is handed the next text of the stream
Dispatch(t) ==
    /\ dpc = "loop"
    /\ nTexts < MaxTexts
    /\ \E resp \in RegisteredAnswers : \E resp2 \in DelegatedAnswers(resp) :
            Route(t, resp, resp2)
    /\ UNCHANGED <<actions, enabled, dpc, pvars, lvars, fvars, xvars>>

\* the stream is exhausted: run() leaves its loop
RunEnd ==
    /\ dpc = "loop"
    /\ dpc' = "done"
    /\ UNCHANGED <<rvars, pvars, lvars, fvars, xvars>>

Next ==
    \/ \E action \in ActionIds : RegisterAction(action)
    \/ \E b \in BOOLEAN : SetEnabled(b)
    \/ RunStart
    \/ \E t \in Texts : Dispatch(t)
    \/ RunEnd

Spec == Init /\ [][Next]_vars

\* run() is called again after it has returned: action_to_consider_first = None,
\* whatever the actions' own state is
RunAgain ==
    /\ dpc = "done"
    /\ dpc' = "loop"
    /\ focus' = NoAction
    /\ UNCHANGED <<actions, enabled, recState, recorded, saved, nTexts,
                   lastText, focusBefore, offers, lastScan, pvars, lvars, fvars, xvars>>

\* the dispatcher with its recorder left enabled, run() called time and again
RerunNext ==
    \/ \E action \in ActionIds : RegisterAction(action)
    \/ RunStart
    \/ \E t \in Texts : Dispatch(t)
    \/ RunEnd
    \/ RunAgain

RerunSpec == Init /\ [][RerunNext]_vars

\* ------------------------------------------- the dispatcher on a BackgroundListener
\* Thread(target=self._listen).start(): the next thread is the listener's thread
SpawnThread ==
    LET t == CHOOSE u \in Unborn : \A v \in Unborn : u <= v
    IN  /\ thread' = t
        /\ tpc' = [tpc EXCEPT ![t] = "while"]

\* BackgroundListener.start(), called from outside run()
Start ==
    /\ Unborn # {}
    /\ stopping = NoStop
    /\ IF IsListening
       THEN /\ called' = [op |-> "start", result |-> "ListenerRunningError"]
            /\ UNCHANGED <<thread, tpc>>
       ELSE /\ called' = [op |-> "start", result |-> "started"]
            /\ SpawnThread
    /\ UNCHANGED <<rvars, dpc, queue, nHeard, audio, transcribed_text, stt_calls,
                   yielded, joining, error, lvars, fvars, xvars>>

\* BackgroundListener.stop(timeout), called from outside run(): join() without a
\* timeout returns once the thread has finished, join(timeout) also when the time
\* is up
Stop(timeout) ==
    /\ thread # 0
    /\ timeout = "None" => ~IsAlive(thread)
    /\ thread' = 0
    /\ called' = [op |-> "stop",
                  result |-> IF timeout = "None" \/ ~IsAlive(thread)
                             THEN "True" ELSE "False"]
    /\ UNCHANGED <<rvars, dpc, tpc, queue, nHeard, audio, transcribed_text, stt_calls,
                   yielded, joining, error, lvars, fvars, xvars>>

\* BackgroundListener._listen, line 73: while self.is_listening
Listen_While(t) ==
    /\ tpc[t] = "while"
    /\ tpc' = [tpc EXCEPT ![t] = IF IsListening THEN "listen" ELSE "stopped"]
    /\ UNCHANGED <<rvars, dpc, thread, queue, nHeard, called, audio, transcribed_text,
                   stt_calls, yielded, joining, error, lvars, fvars, xvars>>

\* _listen, lines 75-77, as the dispatcher sees them: listen() returns an utterance,
\* which is put on the queue; the utterances are numbered in the order listen()
\* returns them
Listen_Put(t) ==
    /\ tpc[t] = "listen"
    /\ nHeard < MaxUtterances
    /\ nHeard' = nHeard + 1
    /\ queue' = Append(queue, nHeard + 1)
    /\ tpc' = [tpc EXCEPT ![t] = "while"]
    /\ UNCHANGED <<rvars, dpc, thread, called, audio, transcribed_text, stt_calls,
                   yielded, joining, error, lvars, fvars, xvars>>

\* _listen, line 75 alone: listen() returns an utterance into the thread's audio
Listen_Return(t) ==
    /\ tpc[t] = "listen"
    /\ nHeard < MaxUtterances
    /\ nHeard' = nHeard + 1
    /\ held' = [held EXCEPT ![t] = nHeard + 1]
    /\ tpc' = [tpc EXCEPT ![t] = "put"]
    /\ UNCHANGED <<rvars, dpc, thread, queue, called, audio, transcribed_text,
                   stt_calls, yielded, joining, error, got, stopping, stopCalled,
                   fvars, xvars>>

\* _listen, line 77 alone: self.queue.put(audio)
Queue_Put(t) ==
    /\ tpc[t] = "put"
    /\ queue' = Append(queue, held[t])
    /\ held' = [held EXCEPT ![t] = 0]
    /\ tpc' = [tpc EXCEPT ![t] = "while"]
    /\ UNCHANGED <<rvars, dpc, thread, nHeard, called, audio, transcribed_text,
                   stt_calls, yielded, joining, error, got, stopping, stopCalled,
                   fvars, xvars>>

\* the loop with lines 81-83 dropped: an exception other than EOFError leaves
\* _listen uncaught and ends the thread in threading's excepthook
Listen_Raise_CatchesOnlyEOF(t, exception) ==
    /\ tpc[t] = "listen"
    /\ tpc' = [tpc EXCEPT ![t] = IF exception = "EOFError" THEN "eof" ELSE "crashed"]
    /\ UNCHANGED <<rvars, dpc, thread, queue, nHeard, called, audio, transcribed_text,
                   stt_calls, yielded, joining, error, lvars, fvars, xvars>>

\* _listen, lines 78-83: listen() raises EOFError or another exception; either is
\* caught and logged, and the loop is left by break
Listen_Raise(t, exception) ==
    /\ tpc[t] = "listen"
    /\ tpc' = [tpc EXCEPT ![t] = IF exception = "EOFError" THEN "eof" ELSE "failed"]
    /\ UNCHANGED <<rvars, dpc, thread, queue, nHeard, called, audio, transcribed_text,
                   stt_calls, yielded, joining, error, lvars, fvars, xvars>>

\* BaseDispatcher.stop_listening, line 76: stop() is called only on a listening
\* listener, and joins its thread
StopListening(then_pc, join_pc) ==
    /\ IF IsListening
       THEN dpc' = join_pc /\ joining' = thread
       ELSE dpc' = then_pc /\ joining' = joining
    /\ UNCHANGED <<rvars, thread, tpc, queue, nHeard, called, audio, transcribed_text,
                   stt_calls, yielded, error, lvars, fvars, avars, svars, hvars>>

\* BackgroundListener.stop() as stop_listening calls it, without a timeout: the
\* join returns once the thread has finished, then self._thread = None
StopJoined(then_pc) ==
    /\ ~IsAlive(joining)
    /\ thread' = 0
    /\ joining' = 0
    /\ dpc' = then_pc
    /\ called' = [op |-> "stop", result |-> "True"]
    /\ UNCHANGED <<rvars, tpc, queue, nHeard, audio, transcribed_text, stt_calls,
                   yielded, error, lvars, fvars, avars, svars, hvars>>

\* run(), line 117: start_listening() begins with stop_listening()
Run_StopListening ==
    /\ dpc = "setup"
    /\ StopListening("start", "start_join")
    /\ UNCHANGED cvars

Run_StopJoined ==
    /\ dpc = "start_join"
    /\ StopJoined("start")
    /\ UNCHANGED cvars

\* start_listening(), line 73: self.listener.start(); then run() sets
\* action_to_consider_first = None
Run_Start ==
    /\ dpc = "start"
    /\ Unborn # {}
    /\ start_calls' = start_calls + 1
    /\ IF IsListening
       THEN /\ called' = [op |-> "start", result |-> "ListenerRunningError"]
            /\ error' = "ListenerRunningError"
            /\ dpc' = "raised"
            /\ UNCHANGED <<thread, tpc, focus>>
       ELSE /\ called' = [op |-> "start", result |-> "started"]
            /\ SpawnThread
            /\ dpc' = "while"
            /\ focus' = NoAction
            /\ error' = error
    /\ UNCHANGED <<actions, enabled, recState, recorded, saved, nTexts, lastText,
                   focusBefore, offers, lastScan, queue, nHeard, audio,
                   transcribed_text, stt_calls, yielded, joining, lvars, fvars,
                   stop_calls, avars, svars, hvars>>

\* _get_transcribed_text, line 81: while is_listening or not empty()
GetText_While ==
    /\ dpc = "while"
    /\ IF IsListening
       THEN dpc' = "get" /\ error' = error
       ELSE IF ListenerEmpty(queue).raises
       THEN dpc' = "finally" /\ error' = "AttributeError"
       ELSE IF ~ListenerEmpty(queue).value
       THEN dpc' = "get" /\ error' = error
       ELSE dpc' = "finally" /\ error' = error
    /\ UNCHANGED <<rvars, thread, tpc, queue, nHeard, called, audio, transcribed_text,
                   stt_calls, yielded, joining, lvars, fvars, xvars>>

\* line 82: audio = self.listener.get(), which waits for an item
GetText_Get ==
    /\ dpc = "get"
    /\ queue # <<>>
    /\ audio' = Head(queue)
    /\ queue' = Tail(queue)
    /\ got' = Append(got, Head(queue))
    /\ dpc' = "transcribe"
    /\ UNCHANGED <<rvars, thread, tpc, nHeard, called, transcribed_text, stt_calls,
                   yielded, joining, error, held, stopping, stopCalled, fvars, xvars>>

\* line 85 without its test: every transcription is yielded
Yields_Always(t) == TRUE

\* line 85: a text is yielded if len(transcribed_text) > 0
Yields(t) == t # ""

\* lines 84-86: the audio is transcribed, and the text yielded if it is not empty
GetText_Transcribe(t) ==
    /\ dpc = "transcribe"
    /\ stt_calls' = Append(stt_calls, [audio |-> audio, text |-> t])
    /\ transcribed_text' = t
    /\ IF Yields(t)
       THEN dpc' = "body" /\ yielded' = Append(yielded, t)
       ELSE dpc' = "while" /\ yielded' = yielded
    /\ UNCHANGED <<rvars, thread, tpc, queue, nHeard, called, audio, joining, error,
                   lvars, fvars, xvars>>

\* run(), lines 121-142: the loop's body on the yielded text
Run_Body ==
    /\ dpc = "body"
    /\ \E resp \in RegisteredAnswers : \E resp2 \in DelegatedAnswers(resp) :
            Route(transcribed_text, resp, resp2)
    /\ dpc' = "while"
    /\ UNCHANGED <<actions, enabled, pvars, lvars, fvars, xvars>>

\* run() without its finally: stop_listening is not called at the end
Run_Finally_NoCall ==
    /\ dpc = "finally"
    /\ dpc' = "ended"
    /\ UNCHANGED <<rvars, pvars, lvars, fvars, xvars>>

\* run(), lines 143-144: finally stop_listening()
Run_Finally ==
    /\ dpc = "finally"
    /\ StopListening("ended", "end_join")
    /\ stop_calls' = stop_calls + 1
    /\ UNCHANGED start_calls

Run_FinallyJoined ==
    /\ dpc = "end_join"
    /\ StopJoined("ended")
    /\ UNCHANGED cvars

\* run() is over: it has returned, or raised `error`
RunOver == dpc \in {"ended", "raised"}

\* the dispatcher with a recorder and one other action registered, before run()
PipeInit ==
    /\ actions = <<Recorder, "A">>
    /\ enabled = TRUE
    /\ focus = NoAction
    /\ recState = NOT_RECORDING
    /\ recorded = NoList
    /\ saved = <<>>
    /\ dpc = "setup"
    /\ nTexts = 0
    /\ lastText = ""
    /\ focusBefore = NoAction
    /\ offers = <<>>
    /\ lastScan = NoScan
    /\ thread = 0
    /\ tpc = [t \in Threads |-> "unborn"]
    /\ queue = <<>>
    /\ nHeard = 0
    /\ called = NoCall
    /\ audio = 0
    /\ transcribed_text = ""
    /\ stt_calls = <<>>
    /\ yielded = <<>>
    /\ joining = 0
    /\ error = ""
    /\ held = [t \in Threads |-> 0]
    /\ got = <<>>
    /\ stopping = NoStop
    /\ stopCalled = {}
    /\ ListenerIdle
    /\ NoActorCalls
    /\ NoSlicing
    /\ NoSwap
    /\ source = <<>>
    /\ labeler = SilenceBased

PipeNext ==
    \/ Start
    \/ \E timeout \in {"None", "finite"} : Stop(timeout)
    \/ \E t \in Threads : Listen_While(t)
    \/ \E t \in Threads : Listen_Put(t)
    \/ \E t \in Threads : \E exception \in {"EOFError", "Exception"} :
            Listen_Raise(t, exception)
    \/ Run_StopListening
    \/ Run_StopJoined
    \/ Run_Start
    \/ GetText_While
    \/ GetText_Get
    \/ \E t \in Transcriptions : GetText_Transcribe(t)
    \/ Run_Body
    \/ Run_Finally
    \/ Run_FinallyJoined

PipeSpec == PipeInit /\ [][PipeNext]_vars

\* ---------------------------------------------------- run() and an action's error
\* what the other actions do with one text when one of them raises
RaisingAnswers == [OtherActions -> ActProcessResult \cup {RAISES}] \ Answers

\* the outcomes of the registered actions, an exception included: an action that
\* is not registered is never asked, so its outcome is left at one value
RegisteredOutcomes ==
    {resp \in [OtherActions -> ActProcessResult \cup {RAISES}] :
        \A a \in OtherActions :
            (\A i \in 1..Len(actions) : actions[i] # a) => resp[a] = TEXT_NOT_PROCESSED}

RaisingDelegatedAnswers(resp) ==
    IF enabled /\ recState = RECORDING /\ (\E i \in 1..Len(actions) : actions[i] = Recorder)
    THEN RegisteredOutcomes
    ELSE {resp}

\* the loop's body with the call of act() in a try that swallows the exception:
\* run() goes on to the next text
Run_Body_Raises_Caught ==
    /\ dpc = "body"
    /\ \E resp \in RegisteredOutcomes :
       \E resp2 \in RaisingDelegatedAnswers(resp) :
            /\ Raised(RunBody(transcribed_text, focus,
                              World(recState, recorded, saved, <<>>), resp, resp2).w.log)
            /\ Route(transcribed_text, resp, resp2)
    /\ dpc' = "while"
    /\ UNCHANGED <<actions, enabled, pvars, lvars, fvars, xvars>>

\* run(), lines 121-144: a call of act() made for the yielded text raises; nothing
\* in _perform_action, _act_on_text or run() catches it, so it leaves the loop and,
\* through the finally, run()
Run_Body_Raises ==
    /\ dpc = "body"
    /\ \E resp \in RegisteredOutcomes :
       \E resp2 \in RaisingDelegatedAnswers(resp) :
            /\ Raised(RunBody(transcribed_text, focus,
                              World(recState, recorded, saved, <<>>), resp, resp2).w.log)
            /\ Route(transcribed_text, resp, resp2)
    /\ dpc' = "finally"
    /\ error' = "ActError"
    /\ UNCHANGED <<actions, enabled, thread, tpc, queue, nHeard, called, audio,
                   transcribed_text, stt_calls, yielded, joining, lvars, fvars, xvars>>

\* the dispatcher with two actions registered, before run()
RunInit ==
    /\ actions \in {<<Recorder, "A">>, <<"A", Recorder>>, <<"A", "B">>}
    /\ enabled = TRUE
    /\ focus = NoAction
    /\ recState = NOT_RECORDING
    /\ recorded = NoList
    /\ saved = <<>>
    /\ dpc = "setup"
    /\ nTexts = 0
    /\ lastText = ""
    /\ focusBefore = NoAction
    /\ offers = <<>>
    /\ lastScan = NoScan
    /\ thread = 0
    /\ tpc = [t \in Threads |-> "unborn"]
    /\ queue = <<>>
    /\ nHeard = 0
    /\ called = NoCall
    /\ audio = 0
    /\ transcribed_text = ""
    /\ stt_calls = <<>>
    /\ yielded = <<>>
    /\ joining = 0
    /\ error = ""
    /\ held = [t \in Threads |-> 0]
    /\ got = <<>>
    /\ stopping = NoStop
    /\ stopCalled = {}
    /\ ListenerIdle
    /\ NoActorCalls
    /\ NoSlicing
    /\ NoSwap
    /\ source = <<>>
    /\ labeler = SilenceBased

\* run() with its listener thread; start() may have been called before run()
RunNext ==
    \/ Start
    \/ \E t \in Threads : Listen_While(t)
    \/ \E t \in Threads : Listen_Put(t)
    \/ \E t \in Threads : \E exception \in {"EOFError", "Exception"} :
            Listen_Raise(t, exception)
    \/ Run_StopListening
    \/ Run_StopJoined
    \/ Run_Start
    \/ GetText_While
    \/ GetText_Get
    \/ \E t \in Transcriptions : GetText_Transcribe(t)
    \/ Run_Body
    \/ Run_Body_Raises
    \/ Run_Finally
    \/ Run_FinallyJoined

RunSpec == RunInit /\ [][RunNext]_vars

\* ------------------------------------------- a BackgroundListener and its callers
\* stop(timeout), line 57: self._thread.join(timeout) begins
Stop_Call(timeout) ==
    /\ thread # 0
    /\ stopping = NoStop
    /\ stopping' = [timeout |-> timeout, target |-> thread]
    /\ stopCalled' = stopCalled \cup {thread}
    /\ UNCHANGED <<rvars, dpc, pvars, held, got, fvars, xvars>>

\* stop(timeout), lines 57-60: join(None) returns once the thread has finished,
\* join(timeout) also when the time is up; then the return value is computed and
\* self._thread = None
Stop_Return ==
    /\ stopping # NoStop
    /\ stopping.timeout = "None" => ~IsAlive(stopping.target)
    /\ called' = [op |-> "stop",
                  result |-> IF stopping.timeout = "None" \/ ~IsAlive(stopping.target)
                             THEN "True" ELSE "False"]
    /\ thread' = 0
    /\ stopping' = NoStop
    /\ UNCHANGED <<rvars, dpc, tpc, queue, nHeard, audio, transcribed_text, stt_calls,
                   yielded, joining, error, held, got, stopCalled, fvars, xvars>>

\* BackgroundListener.get(): self.queue.get(), which waits for an item
Get ==
    /\ queue # <<>>
    /\ got' = Append(got, Head(queue))
    /\ queue' = Tail(queue)
    /\ UNCHANGED <<rvars, dpc, thread, tpc, nHeard, called, audio, transcribed_text,
                   stt_calls, yielded, joining, error, held, stopping, stopCalled,
                   fvars, xvars>>

ListenerNext ==
    \/ Start
    \/ \E timeout \in {"None", "finite"} : Stop_Call(timeout)
    \/ Stop_Return
    \/ \E t \in Threads : Listen_While(t)
    \/ \E t \in Threads : Listen_Return(t)
    \/ \E t \in Threads : Queue_Put(t)
    \/ \E t \in Threads : \E exception \in {"EOFError", "Exception"} :
            Listen_Raise(t, exception)
    \/ Get

ListenerSpec == Init /\ [][ListenerNext]_vars

\* --------------------------------- is_listening, one read of self._thread at a time
\* is_listening, line 67, as the loop's thread evaluates it at line 73: the left
\* operand reads self._thread and compares it with None
IsListening_First(t) ==
    /\ tpc[t] = "while"
    /\ tpc' = [tpc EXCEPT ![t] = IF thread # 0 THEN "is_alive" ELSE "stopped"]
    /\ UNCHANGED <<rvars, dpc, thread, queue, nHeard, called, audio, transcribed_text,
                   stt_calls, yielded, joining, error, lvars, fvars, xvars>>

\* is_listening, line 67: the right operand reads self._thread again and calls
\* is_alive() on what it finds; on None that raises AttributeError, outside the
\* try of _listen, so the thread ends with it
IsListening_Second(t) ==
    /\ tpc[t] = "is_alive"
    /\ tpc' = [tpc EXCEPT ![t] = IF thread = 0 THEN "attribute_error"
                                 ELSE IF IsAlive(thread) THEN "listen"
                                 ELSE "stopped"]
    /\ UNCHANGED <<rvars, dpc, thread, queue, nHeard, called, audio, transcribed_text,
                   stt_calls, yielded, joining, error, lvars, fvars, xvars>>

RaceNext ==
    \/ Start
    \/ \E timeout \in {"None", "finite"} : Stop_Call(timeout)
    \/ Stop_Return
    \/ \E t \in Threads : IsListening_First(t)
    \/ \E t \in Threads : IsListening_Second(t)
    \/ \E t \in Threads : Listen_Return(t)
    \/ \E t \in Threads : Queue_Put(t)
    \/ \E t \in Threads : \E exception \in {"EOFError", "Exception"} :
            Listen_Raise(t, exception)
    \/ Get

RaceSpec == Init /\ [][RaceNext]_vars

\* ------------------------------------------------- a listener on an audio source
\* the source's read() raises EOFError once every frame has been read
SourceExhausted == frame_index >= Len(source)

\* listen() is called: listen_frames, lines 115-119, the first read and its label;
\* an EOFError of this read leaves listen_frames and listen
ListenFrames_First ==
    /\ lpc \in {"idle", "returned"}
    /\ nListens' = nListens + 1
    /\ first_index' = frame_index
    /\ all_frames' = <<>>
    /\ IF SourceExhausted
       THEN /\ lpc' = "raised"
            /\ frame' = NoFrame
            /\ frame_state' = "None"
            /\ frame_index' = frame_index
       ELSE /\ lpc' = "loop"
            /\ frame' = source[frame_index + 1]
            /\ frame_index' = frame_index + 1
            /\ frame_state' \in DetermineFrameState(source[frame_index + 1], <<>>)
    /\ UNCHANGED <<rvars, dpc, pvars, lvars, source, labeler, audio_sample, xvars>>

\* the loop without line 122: the frame just labelled is not appended
ListenFrames_Loop_SkipsAppend ==
    /\ lpc = "loop"
    /\ frame_state # STOP
    /\ all_frames' = all_frames
    /\ IF SourceExhausted
       THEN /\ frame' = NoFrame
            /\ frame_state' = STOP
            /\ frame_index' = frame_index
       ELSE /\ frame' = source[frame_index + 1]
            /\ frame_index' = frame_index + 1
            /\ frame_state' \in DetermineFrameState(source[frame_index + 1], all_frames')
    /\ UNCHANGED <<rvars, dpc, pvars, lvars, source, labeler, lpc, audio_sample,
                   first_index, nListens, xvars>>

\* the loop without its try: an EOFError of a later read leaves listen as well
ListenFrames_Loop_EofPropagates ==
    /\ lpc = "loop"
    /\ frame_state # STOP
    /\ all_frames' = Append(all_frames, AnnotatedFrame(frame, frame_state))
    /\ IF SourceExhausted
       THEN /\ lpc' = "raised"
            /\ frame' = NoFrame
            /\ frame_state' = "None"
            /\ frame_index' = frame_index
       ELSE /\ lpc' = lpc
            /\ frame' = source[frame_index + 1]
            /\ frame_index' = frame_index + 1
            /\ frame_state' \in DetermineFrameState(source[frame_index + 1], all_frames')
    /\ UNCHANGED <<rvars, dpc, pvars, lvars, source, labeler, audio_sample,
                   first_index, nListens, xvars>>

\* listen_frames, lines 121-130: one turn of the while loop
ListenFrames_Loop ==
    /\ lpc = "loop"
    /\ frame_state # STOP
    /\ all_frames' = Append(all_frames, AnnotatedFrame(frame, frame_state))
    /\ IF SourceExhausted
       THEN /\ frame' = NoFrame
            /\ frame_state' = STOP
            /\ frame_index' = frame_index
       ELSE /\ frame' = source[frame_index + 1]
            /\ frame_index' = frame_index + 1
            /\ frame_state' \in DetermineFrameState(source[frame_index + 1], all_frames')
    /\ UNCHANGED <<rvars, dpc, pvars, lvars, source, labeler, lpc, audio_sample,
                   first_index, nListens, xvars>>

\* listen_frames without lines 132-133: the frame labelled STOP is left out
Listen_Finish_DropsLast ==
    /\ lpc = "loop"
    /\ frame_state = STOP
    /\ all_frames' = all_frames
    /\ audio_sample' = JoinAudioSamples(FilterAudioSamples(all_frames'))
    /\ lpc' = "returned"
    /\ UNCHANGED <<rvars, dpc, pvars, lvars, source, labeler, frame, frame_state,
                   frame_index, first_index, nListens, xvars>>

\* listen_frames, lines 132-134, and listen, lines 169-173: the last frame is
\* appended unless it is None, the frames are filtered and joined, and the sample
\* (post-processed by the identity) is returned
Listen_Finish ==
    /\ lpc = "loop"
    /\ frame_state = STOP
    /\ all_frames' = IF frame # NoFrame
                     THEN Append(all_frames, AnnotatedFrame(frame, frame_state))
                     ELSE all_frames
    /\ audio_sample' = JoinAudioSamples(FilterAudioSamples(all_frames'))
    /\ lpc' = "returned"
    /\ UNCHANGED <<rvars, dpc, pvars, lvars, source, labeler, frame, frame_state,
                   frame_index, first_index, nListens, xvars>>

\* the rms and the length a frame can have
Rms == {0, silence_threshold_rms, silence_threshold_rms + 1}
Lengths == {0, 1, 2}

\* the audio sources of at most MaxFrames frames; the rms of a frame of no length
\* is 0
Sources ==
    {src \in UNION {{[i \in 1..n |-> AudioFrame(i - 1, r[i], l[i])] :
                        r \in [1..n -> Rms], l \in [1..n -> Lengths]} :
                    n \in 0..MaxFrames} :
        \A i \in 1..Len(src) : src[i].len = 0 => src[i].rms = 0}

\* the sources of 5 frames of silence, 3 frames above the threshold and 2 frames of
\* silence
ScenarioSources ==
    {[i \in 1..10 |-> AudioFrame(i - 1,
                                 IF i \in 6..8 THEN silence_threshold_rms + 1 ELSE q[i],
                                 1)] :
        q \in [(1..5) \cup (9..10) -> {0, silence_threshold_rms}]}

Labelers == {SilenceBased, Configurable, TimeBased(1), TimeBased(3)}

\* a listener on a source, before the first listen()
FrameInit ==
    /\ actions = <<>>
    /\ enabled = TRUE
    /\ focus = NoAction
    /\ recState = NOT_RECORDING
    /\ recorded = NoList
    /\ saved = <<>>
    /\ dpc = "setup"
    /\ nTexts = 0
    /\ lastText = ""
    /\ focusBefore = NoAction
    /\ offers = <<>>
    /\ lastScan = NoScan
    /\ thread = 0
    /\ tpc = [t \in Threads |-> "unborn"]
    /\ queue = <<>>
    /\ nHeard = 0
    /\ called = NoCall
    /\ audio = 0
    /\ transcribed_text = ""
    /\ stt_calls = <<>>
    /\ yielded = <<>>
    /\ joining = 0
    /\ error = ""
    /\ held = [t \in Threads |-> 0]
    /\ got = <<>>
    /\ stopping = NoStop
    /\ stopCalled = {}
    /\ ListenerIdle
    /\ NoActorCalls
    /\ NoSlicing
    /\ NoSwap
    /\ \/ source \in Sources /\ labeler \in Labelers
       \/ source \in ScenarioSources /\ labeler = SilenceBased

FrameNext ==
    \/ ListenFrames_First
    \/ ListenFrames_Loop
    \/ Listen_Finish

FrameSpec == FrameInit /\ [][FrameNext]_vars

\* ------------------------------------------------- the actions, called directly
\* the texts a MouseAction is handed: one per kind of request, and one it does not
\* parse
MouseTexts == {"move mouse left", "stop mouse", "double click", "any text"}

\* MouseAction.parse_text: the tuple the text parses to, <<>> for None
ParseText(text) ==
    IF text = "move mouse left" THEN <<"move", "left", "None">>
    ELSE IF text = "stop mouse" THEN <<"stop">>
    ELSE IF text = "double click" THEN <<"click", "left", 2>>
    ELSE <<>>

\* MouseAction.speed_mapping
SpeedMapping(speed) == IF speed = "None" THEN SPEED_NORMAL ELSE 0

\* the requests MouseMover puts on its queue
MouseStopRequest == [request |-> "MouseStopRequest"]
MouseLeftRequest(velocity) == [request |-> "MouseLeftRequest", velocity |-> velocity]
MouseClickRequest(button, n_clicks) ==
    [request |-> "MouseClickRequest", button |-> button, n_clicks |-> n_clicks]

\* the request act() has the MouseMover put for a parsed text
RequestFor(parsed_text) ==
    IF parsed_text[1] = "stop" THEN MouseStopRequest
    ELSE IF parsed_text[1] = "move"
    THEN MouseLeftRequest(SpeedMapping(parsed_text[3]))
    ELSE MouseClickRequest(parsed_text[2], parsed_text[3])

\* BaseAction.enabled of the MouseAction is set from outside
SetMouseEnabled(b) ==
    /\ mouse_enabled # b
    /\ mouse_enabled' = b
    /\ UNCHANGED <<rvars, dpc, pvars, lvars, fvars, cvars, mouse_queue, mapper_enabled,
                   handled, acted, nCalls, svars, hvars>>

\* MouseAction.act(text): the text is parsed and, if it parses, the request is put
\* on the worker's queue and True returned, else False; self.enabled is not read
MouseAction_Act(text) ==
    /\ nCalls < MaxCalls
    /\ nCalls' = nCalls + 1
    /\ LET parsed_text == ParseText(text)
       IN  IF parsed_text # <<>>
           THEN /\ mouse_queue' = Append(mouse_queue, RequestFor(parsed_text))
                /\ acted' = [action |-> "mouse", text |-> text,
                             enabled |-> mouse_enabled, result |-> "True"]
           ELSE /\ mouse_queue' = mouse_queue
                /\ acted' = [action |-> "mouse", text |-> text,
                             enabled |-> mouse_enabled, result |-> "False"]
    /\ UNCHANGED <<rvars, dpc, pvars, lvars, fvars, cvars, mouse_enabled,
                   mapper_enabled, handled, svars, hvars>>

\* MouseMover._act: the worker takes the next request off the queue
MouseMover_Get ==
    /\ mouse_queue # <<>>
    /\ mouse_queue' = Tail(mouse_queue)
    /\ UNCHANGED <<rvars, dpc, pvars, lvars, fvars, cvars, mouse_enabled,
                   mapper_enabled, handled, acted, nCalls, svars, hvars>>

\* the triggers of the StringLiteralActor's string_action_mapper
Triggers == {"go left"}

\* BaseAction.enabled of the StringLiteralActor is set from outside
SetMapperEnabled(b) ==
    /\ mapper_enabled # b
    /\ mapper_enabled' = b
    /\ UNCHANGED <<rvars, dpc, pvars, lvars, fvars, cvars, mouse_enabled, mouse_queue,
                   handled, acted, nCalls, svars, hvars>>

\* StringLiteralActor.act(text): a disabled actor answers TEXT_NOT_PROCESSED; else
\* the handler of the trigger, if there is one, is called and its answer returned
StringLiteralActor_Act(text, answer) ==
    /\ nCalls < MaxCalls
    /\ nCalls' = nCalls + 1
    /\ IF ~mapper_enabled
       THEN /\ handled' = handled
            /\ acted' = [action |-> "mapper", text |-> text, enabled |-> mapper_enabled,
                         result |-> TEXT_NOT_PROCESSED]
       ELSE IF text \in Triggers
       THEN /\ handled' = Append(handled, text)
            /\ acted' = [action |-> "mapper", text |-> text, enabled |-> mapper_enabled,
                         result |-> answer]
       ELSE /\ handled' = handled
            /\ acted' = [action |-> "mapper", text |-> text, enabled |-> mapper_enabled,
                         result |-> TEXT_NOT_PROCESSED]
    /\ UNCHANGED <<rvars, dpc, pvars, lvars, fvars, cvars, mouse_enabled, mouse_queue,
                   mapper_enabled, svars, hvars>>

\* ActionRecorderAction.act(text), called directly
ActionRecorderAction_Act(text, resp2) ==
    /\ nCalls < MaxCalls
    /\ nCalls' = nCalls + 1
    /\ LET a == RecorderAct(text, World(recState, recorded, saved, <<>>), resp2, resp2)
       IN  /\ recState' = a.w.rs
           /\ recorded' = a.w.rec
           /\ saved' = a.w.sv
           /\ offers' = a.w.log
           /\ acted' = [action |-> Recorder, text |-> text, enabled |-> enabled,
                        result |-> a.result]
    /\ UNCHANGED <<actions, enabled, focus, nTexts, lastText, focusBefore, lastScan,
                   dpc, pvars, lvars, fvars, cvars, mouse_enabled, mouse_queue,
                   mapper_enabled, handled, svars, hvars>>

\* a recorder on a dispatcher with one other action registered, a trigger-table
\* actor and a mouse action, before any call
ActorInit ==
    /\ actions = <<"A">>
    /\ enabled = TRUE
    /\ focus = NoAction
    /\ recState = NOT_RECORDING
    /\ recorded = NoList
    /\ saved = <<>>
    /\ dpc = "setup"
    /\ nTexts = 0
    /\ lastText = ""
    /\ focusBefore = NoAction
    /\ offers = <<>>
    /\ lastScan = NoScan
    /\ thread = 0
    /\ tpc = [t \in Threads |-> "unborn"]
    /\ queue = <<>>
    /\ nHeard = 0
    /\ called = NoCall
    /\ audio = 0
    /\ transcribed_text = ""
    /\ stt_calls = <<>>
    /\ yielded = <<>>
    /\ joining = 0
    /\ error = ""
    /\ held = [t \in Threads |-> 0]
    /\ got = <<>>
    /\ stopping = NoStop
    /\ stopCalled = {}
    /\ ListenerIdle
    /\ NoActorCalls
    /\ NoSlicing
    /\ NoSwap
    /\ source = <<>>
    /\ labeler = SilenceBased

ActorNext ==
    \/ \E b \in BOOLEAN : SetEnabled(b)
    \/ \E b \in BOOLEAN : SetMouseEnabled(b)
    \/ \E b \in BOOLEAN : SetMapperEnabled(b)
    \/ \E text \in MouseTexts : MouseAction_Act(text)
    \/ MouseMover_Get
    \/ \E text \in Texts : \E answer \in ActProcessResult :
            StringLiteralActor_Act(text, answer)
    \/ \E text \in Texts : \E resp2 \in Answers : ActionRecorderAction_Act(text, resp2)

ActorSpec == ActorInit /\ [][ActorNext]_vars

\* ------------------------------------------------- the recorder over its sessions
\* ActionRecorderAction.act(text), called directly, one session after another;
\* session keeps the texts an enabled recorder was handed while recording since
\* the latest "record action" that began a session
RecorderSession_Act(text, resp2) ==
    /\ nCalls < MaxSessionCalls
    /\ nCalls' = nCalls + 1
    /\ LET a == RecorderAct(text, World(recState, recorded, saved, <<>>), resp2, resp2)
       IN  /\ recState' = a.w.rs
           /\ recorded' = a.w.rec
           /\ saved' = a.w.sv
           /\ offers' = a.w.log
           /\ acted' = [action |-> Recorder, text |-> text, enabled |-> enabled,
                        result |-> a.result]
    /\ session' = IF ~enabled THEN session
                  ELSE IF recState = RECORDING
                  THEN IF Lower(text) = "stop recording" THEN session
                       ELSE Append(session, text)
                  ELSE IF Lower(text) = "record action" THEN <<>>
                  ELSE session
    /\ UNCHANGED <<actions, enabled, focus, nTexts, lastText, focusBefore, lastScan,
                   dpc, pvars, lvars, fvars, cvars, mouse_enabled, mouse_queue,
                   mapper_enabled, handled, svars, listener, speech_to_text, threads,
                   queues, getting, pulls, transcriptions, setting>>

SessionNext ==
    \/ \E b \in BOOLEAN : SetEnabled(b)
    \/ \E text \in Texts : \E resp2 \in RegisteredAnswers :
            RecorderSession_Act(text, resp2)

SessionSpec == ActorInit /\ [][SessionNext]_vars

\* ------------------------------------------------------- slicing an AudioSample
\* an AudioSample with its format: data is the raw data, one entry per sample of
\* one channel, the channels of a frame side by side
Channels == {1, 2}
SampleValues == {0, 1}
AudioSamples ==
    UNION {{[none |-> FALSE, data |-> d, channels |-> c] :
                d \in [1..(n * c) -> SampleValues]} :
           n \in 1..MaxSampleFrames, c \in Channels}

\* AudioSample.n_frames: the raw data come in frames of one sample per channel
NFrames(s) == Len(s.data) \div s.channels

\* AudioSample.__eq__: an AudioSample with the same data (pydub compares the raw
\* data of two segments)
SampleEq(s, other) == ~other.none /\ s.data = other.data

\* AudioSample.to_numpy: np.frombuffer gives a one-dimensional array, one entry per
\* sample whatever the number of channels
ToNumpy(s) == [shape |-> <<Len(s.data)>>, values |-> s.data]

\* data[start:stop] on a one-dimensional array, for 0 <= start and 0 <= stop
NumpySlice(data, start, stop) ==
    LET n == Len(data.values)
        lo == IF start < n THEN start ELSE n
        hi == IF stop < n THEN stop ELSE n
        values == IF lo < hi THEN SubSeq(data.values, lo + 1, hi) ELSE <<>>
    IN  [shape |-> <<Len(values)>>, values |-> values]

\* AudioSample.from_numpy: a one-dimensional array is one channel
FromNumpy(data) ==
    [none |-> FALSE, data |-> data.values,
     channels |-> IF Len(data.shape) = 1 THEN 1 ELSE data.shape[2]]

\* AudioSample.slice_frame(start, stop)
SliceFrame(s, start, stop) == FromNumpy(NumpySlice(ToNumpy(s), start, stop))

\* s.slice_frame(0, k) and s.slice_frame(k, s.n_frames)
Slice(k) ==
    /\ halves = <<>>
    /\ k > 0
    /\ k < NFrames(original)
    /\ halves' = <<SliceFrame(original, 0, k), SliceFrame(original, k, NFrames(original))>>
    /\ UNCHANGED <<rvars, dpc, pvars, lvars, fvars, cvars, avars, hvars,
                   original, rejoined>>

\* the first half's append(second half)
Rejoin ==
    /\ halves # <<>>
    /\ rejoined = NoSample
    /\ rejoined' = AppendSample(halves[1], halves[2])
    /\ UNCHANGED <<rvars, dpc, pvars, lvars, fvars, cvars, avars, hvars,
                   original, halves>>

\* any AudioSample, not yet sliced
SampleInit ==
    /\ actions = <<>>
    /\ enabled = TRUE
    /\ focus = NoAction
    /\ recState = NOT_RECORDING
    /\ recorded = NoList
    /\ saved = <<>>
    /\ dpc = "setup"
    /\ nTexts = 0
    /\ lastText = ""
    /\ focusBefore = NoAction
    /\ offers = <<>>
    /\ lastScan = NoScan
    /\ thread = 0
    /\ tpc = [t \in Threads |-> "unborn"]
    /\ queue = <<>>
    /\ nHeard = 0
    /\ called = NoCall
    /\ audio = 0
    /\ transcribed_text = ""
    /\ stt_calls = <<>>
    /\ yielded = <<>>
    /\ joining = 0
    /\ error = ""
    /\ held = [t \in Threads |-> 0]
    /\ got = <<>>
    /\ stopping = NoStop
    /\ stopCalled = {}
    /\ ListenerIdle
    /\ NoActorCalls
    /\ source = <<>>
    /\ labeler = SilenceBased
    /\ original \in AudioSamples
    /\ halves = <<>>
    /\ rejoined = NoSample
    /\ NoSwap

SampleNext ==
    \/ \E k \in 1..MaxSampleFrames : Slice(k)
    \/ Rejoin

SampleSpec == SampleInit /\ [][SampleNext]_vars

\* ------------------------------------- the dispatcher's listener and engine swapped
\* two BackgroundListeners and two engines; the background thread of listener bl
\* is thread bl
Listeners == {1, 2}
Engines == {1, 2}

\* BackgroundListener.is_listening of listener bl
IsListeningOn(bl) == threads[bl] # 0 /\ IsAlive(threads[bl])

\* how many utterances the listen() of listener bl has returned so far
HeardOn(bl) ==
    Len(queues[bl]) + Cardinality({k \in 1..Len(pulls) : pulls[k].audio.bl = bl})

\* set_listener has run its line 67, self.listener = listener
ListenerSet == setting.at \in {"start", "done"}

\* BackgroundListener._listen of listener bl, line 73: while self.is_listening
ListenOn_While(bl) ==
    /\ tpc[bl] = "while"
    /\ tpc' = [tpc EXCEPT ![bl] = IF IsListeningOn(bl) THEN "listen" ELSE "stopped"]
    /\ UNCHANGED <<rvars, dpc, thread, queue, nHeard, called, audio, transcribed_text,
                   stt_calls, yielded, joining, error, lvars, fvars, xvars>>

\* _listen of listener bl, lines 75-77: listen() returns an utterance, which is put
\* on that listener's queue
ListenOn_Put(bl) ==
    /\ tpc[bl] = "listen"
    /\ HeardOn(1) + HeardOn(2) <= MaxUtterances
    /\ queues' = [queues EXCEPT ![bl] = Append(@, [bl |-> bl, n |-> HeardOn(bl) + 1])]
    /\ tpc' = [tpc EXCEPT ![bl] = "while"]
    /\ UNCHANGED <<rvars, dpc, thread, queue, nHeard, called, audio, transcribed_text,
                   stt_calls, yielded, joining, error, lvars, fvars, cvars, avars,
                   svars, listener, speech_to_text, threads, getting, pulls,
                   transcriptions, setting, session>>

\* _listen of listener bl, lines 78-83: listen() raises, and the loop is left
ListenOn_Raise(bl, exception) ==
    /\ tpc[bl] = "listen"
    /\ tpc' = [tpc EXCEPT ![bl] = IF exception = "EOFError" THEN "eof" ELSE "failed"]
    /\ UNCHANGED <<rvars, dpc, thread, queue, nHeard, called, audio, transcribed_text,
                   stt_calls, yielded, joining, error, lvars, fvars, xvars>>

\* _get_transcribed_text, line 81: while self.listener.is_listening or not
\* self.listener.empty(), on whichever listener self.listener is now
Stream_While ==
    /\ dpc = "while"
    /\ IF IsListeningOn(listener)
       THEN dpc' = "get" /\ error' = error
       ELSE IF ListenerEmpty(queues[listener]).raises
       THEN dpc' = "ended" /\ error' = "AttributeError"
       ELSE IF ~ListenerEmpty(queues[listener]).value
       THEN dpc' = "get" /\ error' = error
       ELSE dpc' = "ended" /\ error' = error
    /\ UNCHANGED <<rvars, thread, tpc, queue, nHeard, called, audio, transcribed_text,
                   stt_calls, yielded, joining, lvars, fvars, xvars>>

\* the text stream holding on to the listener it began with
Stream_GetCall_KeepsFirstListener ==
    /\ dpc = "get"
    /\ getting' = [bl |-> 1, after |-> ListenerSet]
    /\ dpc' = "getting"
    /\ UNCHANGED <<rvars, pvars, lvars, fvars, cvars, avars, svars, listener,
                   speech_to_text, threads, queues, pulls, transcriptions, setting,
                   session>>

\* line 82: self.listener.get() is called, on whichever listener self.listener is
\* now
Stream_GetCall ==
    /\ dpc = "get"
    /\ getting' = [bl |-> listener, after |-> ListenerSet]
    /\ dpc' = "getting"
    /\ UNCHANGED <<rvars, pvars, lvars, fvars, cvars, avars, svars, listener,
                   speech_to_text, threads, queues, pulls, transcriptions, setting,
                   session>>

\* line 82, BackgroundListener.get(): self.queue.get() of the listener called
\* returns once that queue has an item
Stream_GetReturn ==
    /\ dpc = "getting"
    /\ queues[getting.bl] # <<>>
    /\ pulls' = Append(pulls, [audio |-> Head(queues[getting.bl]),
                               called_after |-> getting.after,
                               returned_after |-> ListenerSet])
    /\ queues' = [queues EXCEPT ![getting.bl] = Tail(@)]
    /\ getting' = NoCallOfGet
    /\ dpc' = "transcribe"
    /\ UNCHANGED <<rvars, pvars, lvars, fvars, cvars, avars, svars, listener,
                   speech_to_text, threads, transcriptions, setting, session>>

\* lines 84-86: self.speech_to_text.transcribe_audio(audio), on whichever engine
\* self.speech_to_text is now; a text that is not empty is yielded
Stream_Transcribe(t) ==
    /\ dpc = "transcribe"
    /\ transcriptions' = Append(transcriptions,
                                [audio |-> pulls[Len(pulls)].audio,
                                 engine |-> speech_to_text,
                                 after |-> speech_to_text # 1,
                                 text |-> t])
    /\ IF Yields(t)
       THEN dpc' = "body" /\ yielded' = Append(yielded, t)
       ELSE dpc' = "while" /\ yielded' = yielded
    /\ UNCHANGED <<rvars, thread, tpc, queue, nHeard, called, audio, transcribed_text,
                   stt_calls, joining, error, lvars, fvars, cvars, avars, svars,
                   listener, speech_to_text, threads, queues, getting, pulls, setting,
                   session>>

\* the consumer of the stream is done with the text and asks for the next one
Stream_Resume ==
    /\ dpc = "body"
    /\ dpc' = "while"
    /\ UNCHANGED <<rvars, pvars, lvars, fvars, xvars>>

\* set_listener(listener, start_listening), line 66: stop_listening() calls stop()
\* on the current listener only if it is listening, and stop() joins its thread
SetListener_Call(start_listening) ==
    /\ setting.at = "idle"
    /\ dpc # "ended"
    /\ setting' = [at |-> IF IsListeningOn(listener) THEN "join" ELSE "assign",
                   start_listening |-> start_listening,
                   during |-> ""]
    /\ UNCHANGED <<rvars, dpc, pvars, lvars, fvars, cvars, avars, svars, listener,
                   speech_to_text, threads, queues, getting, pulls, transcriptions,
                   session>>

\* BackgroundListener.stop(), lines 57-60, without a timeout: the join returns once
\* the thread has finished, then self._thread = None
SetListener_Joined ==
    /\ setting.at = "join"
    /\ ~IsAlive(threads[listener])
    /\ threads' = [threads EXCEPT ![listener] = 0]
    /\ setting' = [setting EXCEPT !.at = "assign"]
    /\ UNCHANGED <<rvars, dpc, pvars, lvars, fvars, cvars, avars, svars, listener,
                   speech_to_text, queues, getting, pulls, transcriptions, session>>

\* set_listener, line 67: self.listener = listener, the second one
SetListener_Assign ==
    /\ setting.at = "assign"
    /\ listener' = 2
    /\ setting' = [setting EXCEPT
                     !.at = IF setting.start_listening THEN "start" ELSE "done",
                     !.during = dpc]
    /\ UNCHANGED <<rvars, dpc, pvars, lvars, fvars, cvars, avars, svars,
                   speech_to_text, threads, queues, getting, pulls, transcriptions,
                   session>>

\* set_listener, lines 68-69: self.listener.start() on the new listener, which has
\* no thread yet
SetListener_Start ==
    /\ setting.at = "start"
    /\ threads' = [threads EXCEPT ![listener] = listener]
    /\ tpc' = [tpc EXCEPT ![listener] = "while"]
    /\ setting' = [setting EXCEPT !.at = "done"]
    /\ UNCHANGED <<rvars, dpc, thread, queue, nHeard, called, audio, transcribed_text,
                   stt_calls, yielded, joining, error, lvars, fvars, cvars, avars,
                   svars, listener, speech_to_text, queues, getting, pulls,
                   transcriptions, session>>

\* dispatcher.speech_to_text = the second engine
AssignSpeechToText ==
    /\ speech_to_text = 1
    /\ dpc # "ended"
    /\ speech_to_text' = 2
    /\ UNCHANGED <<rvars, dpc, pvars, lvars, fvars, cvars, avars, svars, listener,
                   threads, queues, getting, pulls, transcriptions, setting, session>>

\* a dispatcher that has started its first listener and begun its text stream
SwapInit ==
    /\ actions = <<>>
    /\ enabled = TRUE
    /\ focus = NoAction
    /\ recState = NOT_RECORDING
    /\ recorded = NoList
    /\ saved = <<>>
    /\ dpc = "while"
    /\ nTexts = 0
    /\ lastText = ""
    /\ focusBefore = NoAction
    /\ offers = <<>>
    /\ lastScan = NoScan
    /\ thread = 0
    /\ tpc = [t \in Threads |-> IF t = 1 THEN "while" ELSE "unborn"]
    /\ queue = <<>>
    /\ nHeard = 0
    /\ called = NoCall
    /\ audio = 0
    /\ transcribed_text = ""
    /\ stt_calls = <<>>
    /\ yielded = <<>>
    /\ joining = 0
    /\ error = ""
    /\ held = [t \in Threads |-> 0]
    /\ got = <<>>
    /\ stopping = NoStop
    /\ stopCalled = {}
    /\ ListenerIdle
    /\ NoActorCalls
    /\ NoSlicing
    /\ source = <<>>
    /\ labeler = SilenceBased
    /\ listener = 1
    /\ speech_to_text = 1
    /\ threads = [bl \in Listeners |-> IF bl = 1 THEN 1 ELSE 0]
    /\ queues = [bl \in Listeners |-> <<>>]
    /\ getting = NoCallOfGet
    /\ pulls = <<>>
    /\ transcriptions = <<>>
    /\ setting = NotSetting
    /\ session = <<>>

SwapNext ==
    \/ \E bl \in Listeners : ListenOn_While(bl)
    \/ \E bl \in Listeners : ListenOn_Put(bl)
    \/ \E bl \in Listeners : \E exception \in {"EOFError", "Exception"} :
            ListenOn_Raise(bl, exception)
    \/ Stream_While
    \/ Stream_GetCall
    \/ Stream_GetReturn
    \/ \E t \in {"go left", ""} : Stream_Transcribe(t)
    \/ Stream_Resume
    \/ \E start_listening \in BOOLEAN : SetListener_Call(start_listening)
    \/ SetListener_Joined
    \/ SetListener_Assign
    \/ SetListener_Start
    \/ AssignSpeechToText

SwapSpec == SwapInit /\ [][SwapNext]_vars

\* ------------------------------------------------------------ the routing claims
\* the calls of act() the dispatcher's own loop made for the latest text: the one
\* on the focused action and those of its scan; what a recorder does with the text
\* inside its own act() is listed apart
IsOwn(o) == o.by # ByDelegate
IsScan(o) == o.by = ByScan
IsDelegated(o) == o.by = ByDelegate
Own(log) == SelectSeq(log, IsOwn)
Scanned(log) == SelectSeq(log, IsScan)
Delegated(log) == SelectSeq(log, IsDelegated)
Last(seq) == seq[Len(seq)]

\* the positions of self.actions a scan that skips `skip` goes through, in order
RECURSIVE PositionsFrom(_, _)
PositionsFrom(i, skip) ==
    IF i > Len(actions) THEN <<>>
    ELSE IF actions[i] \in skip THEN PositionsFrom(i + 1, skip)
    ELSE <<i>> \o PositionsFrom(i + 1, skip)

\* a scan's calls follow the given positions in order, one call each, every call
\* but the last answered TEXT_NOT_PROCESSED, and the scan stops short of the last
\* position only on an answer other than TEXT_NOT_PROCESSED
InOrderUntilFirstClaim(scan, positions) ==
    /\ Len(scan) <= Len(positions)
    /\ \A k \in 1..Len(scan) :
         /\ scan[k].pos = positions[k]
         /\ scan[k].action = actions[positions[k]]
         /\ k < Len(scan) => scan[k].result = TEXT_NOT_PROCESSED
    /\ Len(scan) < Len(positions) =>
         /\ Len(scan) > 0
         /\ Last(scan).result # TEXT_NOT_PROCESSED

\* the step hands run()'s loop a text
IsDispatch == nTexts' = nTexts + 1

\* C1: with no action holding the focus, a text is offered to the registered
\* actions in registration order, skipping none, each once, up to and including
\* the first one that answers other than TEXT_NOT_PROCESSED, which is the winner;
\* no action registered after the winner is offered the text
C1_RegistrationOrder ==
    (nTexts > 0 /\ focusBefore = NoAction) =>
        /\ lastScan.called
        /\ Own(offers) = Scanned(offers)
        /\ InOrderUntilFirstClaim(Scanned(offers), PositionsFrom(1, {}))
        /\ lastScan.result # TEXT_NOT_PROCESSED =>
             /\ Scanned(offers) # <<>>
             /\ lastScan.winner = Last(Scanned(offers)).action
             /\ lastScan.result = Last(Scanned(offers)).result
        /\ lastScan.result = TEXT_NOT_PROCESSED =>
             /\ lastScan.winner = NoAction
             /\ Len(Scanned(offers)) = Len(actions)

C1_Witness ==
    /\ nTexts > 0
    /\ focusBefore = NoAction
    /\ Len(actions) = 2
    /\ Len(Scanned(offers)) = 2
    /\ Last(Scanned(offers)).result = TEXT_PROCESSED

\* C2: in NO_FOCUS a winner that answers PROCESS_FUTURE_TEXT gets the focus, and
\* the next text is offered to it before any other action; a winner that answers
\* TEXT_PROCESSED leaves the dispatcher in NO_FOCUS
C2_FocusAfterScan ==
    (nTexts > 0 /\ focusBefore = NoAction) =>
        /\ lastScan.result = PROCESS_FUTURE_TEXT =>
             (focus = lastScan.winner /\ focus # NoAction)
        /\ lastScan.result = TEXT_PROCESSED => focus = NoAction

C2_NextTextToWinner ==
    (/\ IsDispatch
     /\ nTexts > 0
     /\ focusBefore = NoAction
     /\ lastScan.result = PROCESS_FUTURE_TEXT) =>
        /\ offers' # <<>>
        /\ Head(offers').action = lastScan.winner
        /\ Head(offers').by = ByFocus

C2_StickyAfterFutureText == [] C2_FocusAfterScan /\ [][C2_NextTextToWinner]_vars

C2_Witness ==
    /\ nTexts = 2
    /\ focusBefore # NoAction
    /\ Head(offers).action = focusBefore
    /\ Head(offers).by = ByFocus
    /\ Len(actions) = 2
    /\ actions[2] = focusBefore
    /\ actions[1] # focusBefore

\* the latest text was won with PROCESS_FUTURE_TEXT by the given action
WonFutureText(action) ==
    /\ nTexts > 0
    /\ Own(offers) # <<>>
    /\ Last(Own(offers)).action = action
    /\ Last(Own(offers)).result = PROCESS_FUTURE_TEXT

\* C3: when an action answers PROCESS_FUTURE_TEXT for one text and TEXT_PROCESSED
\* for the next, no other action is offered that next text, the dispatcher is back
\* in NO_FOCUS after it, and a text after that is scanned from the first registered
\* action again
C3_SecondTextOnlyToHolder ==
    \A a \in ActionIds :
        (/\ IsDispatch
         /\ WonFutureText(a)
         /\ Head(offers').action = a
         /\ Head(offers').result = TEXT_PROCESSED) =>
            /\ Len(Own(offers')) = 1
            /\ focus' = NoAction

C3_ThirdTextFromFirstAction ==
    (IsDispatch /\ focus = NoAction /\ actions # <<>>) =>
        /\ Head(offers').by = ByScan
        /\ Head(offers').pos = 1
        /\ Head(offers').action = actions[1]

C3_StickyFocus ==
    [][C3_SecondTextOnlyToHolder /\ C3_ThirdTextFromFirstAction]_vars

C3_Witness ==
    /\ actions = <<"A", "B">>
    /\ nTexts = 2
    /\ focusBefore = "A"
    /\ offers = <<Offer(0, "A", TEXT_PROCESSED, ByFocus)>>
    /\ focus = NoAction

\* C4: when the holder of the focus answers TEXT_NOT_PROCESSED for a text and the
\* next action of the list answers TEXT_PROCESSED, that action has handled the text
\* and the focus is cleared: the dispatcher is in NO_FOCUS afterwards
C4_FallthroughClearsFocus ==
    (/\ nTexts > 0
     /\ focusBefore # NoAction
     /\ Head(offers).result = TEXT_NOT_PROCESSED
     /\ Len(Own(offers)) >= 2
     /\ Own(offers)[2].result = TEXT_PROCESSED) =>
        /\ lastScan.winner = Own(offers)[2].action
        /\ focus = NoAction

\* C5: when the holder a of the focus answers TEXT_NOT_PROCESSED, the text is
\* offered to the other registered actions in registration order, a left out, and
\* the dispatcher ends FOCUSED(b) only if another action b claimed the text with
\* PROCESS_FUTURE_TEXT, in NO_FOCUS otherwise
C5_SubDispatchExcludesHolder ==
    (/\ nTexts > 0
     /\ focusBefore # NoAction
     /\ Head(offers).result = TEXT_NOT_PROCESSED) =>
        /\ lastScan.called
        /\ Own(offers) = <<Head(offers)>> \o Scanned(offers)
        /\ InOrderUntilFirstClaim(Scanned(offers), PositionsFrom(1, {focusBefore}))
        /\ \A k \in 1..Len(Scanned(offers)) : Scanned(offers)[k].action # focusBefore

C5_AdoptsSubDispatchState ==
    (/\ nTexts > 0
     /\ focusBefore # NoAction
     /\ Head(offers).result = TEXT_NOT_PROCESSED) =>
        focus = IF lastScan.result = PROCESS_FUTURE_TEXT THEN lastScan.winner ELSE NoAction

C5_FallthroughSubDispatch == C5_SubDispatchExcludesHolder /\ C5_AdoptsSubDispatchState

\* C6: when the holder of the focus answers PROCESS_FUTURE_TEXT it keeps the
\* focus and the dispatcher offers the text to no other action, text after text
C6_HolderKeepsFocus ==
    (/\ nTexts > 0
     /\ focusBefore # NoAction
     /\ Head(offers).result = PROCESS_FUTURE_TEXT) =>
        /\ focus = focusBefore
        /\ Own(offers) = <<Head(offers)>>
        /\ Head(offers).action = focusBefore
        /\ ~lastScan.called

C6_Witness ==
    /\ nTexts = 3
    /\ focusBefore = "A"
    /\ focus = "A"
    /\ Head(offers).result = PROCESS_FUTURE_TEXT
    /\ actions = <<"B", "A">>

\* every call of act() the dispatcher's loop made for the latest text was answered
\* TEXT_NOT_PROCESSED
NobodyClaimed(log) ==
    \A k \in 1..Len(Own(log)) : Own(log)[k].result = TEXT_NOT_PROCESSED

\* C7: when no action claims a text (none is registered, or every one offered it
\* answers TEXT_NOT_PROCESSED), _act_on_text returns (None, TEXT_NOT_PROCESSED),
\* the text leaves no trace in the recorder, and the dispatcher ends in NO_FOCUS,
\* from NO_FOCUS and from FOCUSED(a) alike
C7_UnclaimedState ==
    (nTexts > 0 /\ NobodyClaimed(offers)) =>
        /\ lastScan.called
        /\ lastScan.winner = NoAction
        /\ lastScan.result = TEXT_NOT_PROCESSED
        /\ focus = NoAction

C7_UnclaimedStep ==
    (IsDispatch /\ NobodyClaimed(offers')) =>
        /\ UNCHANGED <<recState, recorded, saved>>
        /\ Delegated(offers') = <<>>

C7_UnclaimedTextDiscarded == [] C7_UnclaimedState /\ [][C7_UnclaimedStep]_vars

C7_Witness ==
    /\ nTexts > 0
    /\ focusBefore # NoAction
    /\ Len(actions) = 2
    /\ Len(Own(offers)) = 2
    /\ NobodyClaimed(offers)
    /\ focus = NoAction

\* C8: a recorder's delegation (_act_on_text called from inside its act()) leaves
\* the focus to the dispatcher's loop: whatever the delegated-to action answers,
\* PROCESS_FUTURE_TEXT included, the focus after the text is the recorder and the
\* next text is offered to the recorder first
C8_FocusAfterDelegation ==
    (nTexts > 0 /\ Delegated(offers) # <<>>) => focus = Recorder

C8_NextTextToRecorder ==
    (IsDispatch /\ nTexts > 0 /\ Delegated(offers) # <<>>) =>
        /\ Head(offers').action = Recorder
        /\ Head(offers').by = ByFocus

C8_DelegationKeepsFocus == [] C8_FocusAfterDelegation /\ [][C8_NextTextToRecorder]_vars

C8_Witness ==
    /\ nTexts = 3
    /\ focusBefore = Recorder
    /\ Delegated(offers) # <<>>
    /\ Last(Delegated(offers)).result = PROCESS_FUTURE_TEXT
    /\ Last(Delegated(offers)).action = "A"
    /\ Len(recorded.items) = 2
    /\ recorded.items[1].process_result = PROCESS_FUTURE_TEXT

\* ------------------------------------------------------------ the pipeline claims
IsNonEmpty(call) == call.text # ""

\* the texts of the given calls of transcribe_audio, in order
RECURSIVE TextsOf(_)
TextsOf(calls) ==
    IF calls = <<>> THEN <<>> ELSE <<Head(calls).text>> \o TextsOf(Tail(calls))

\* 1 while the dispatcher holds an audio it has taken and not yet transcribed
InTranscription == IF dpc = "transcribe" THEN 1 ELSE 0
\* 1 while a yielded text waits for the body of run()'s loop
InBody == IF dpc = "body" THEN 1 ELSE 0

\* C9: an empty transcription is never routed: act() is called and the focus
\* changes only in the loop body, which runs only on a non-empty text; every
\* utterance taken from the queue is transcribed exactly once, in the order taken,
\* and the non-empty transcriptions are the texts yielded, in order, each routed once
C9_OnlyNonEmptyYielded ==
    /\ dpc = "body" => transcribed_text # ""
    /\ nTexts > 0 => lastText # ""
    /\ \A i \in 1..Len(yielded) : yielded[i] # ""
    /\ yielded = TextsOf(SelectSeq(stt_calls, IsNonEmpty))
    /\ nTexts = Len(yielded) - InBody

C9_TranscribedOnce ==
    /\ Len(got) = Len(stt_calls) + InTranscription
    /\ \A i \in 1..Len(stt_calls) : stt_calls[i].audio = got[i]
    /\ \A i, j \in 1..Len(got) : got[i] = got[j] => i = j
    /\ Len(got) + Len(queue) + Cardinality({t \in Threads : held[t] # 0}) = nHeard

C9_EmptyStep ==
    (stt_calls' # stt_calls /\ Last(stt_calls').text = "") =>
        /\ UNCHANGED <<focus, offers, nTexts, recState, recorded, saved>>
        /\ dpc' = "while"

C9_RoutingStep ==
    (offers' # offers \/ focus' # focus \/ nTexts' # nTexts) =>
        \/ /\ dpc = "body"
           /\ transcribed_text # ""
           /\ lastText' = transcribed_text
           /\ nTexts' = nTexts + 1
        \/ /\ dpc = "start"
           /\ UNCHANGED <<offers, nTexts>>
           /\ focus' = NoAction

C9_EmptyTextNeverRouted ==
    /\ [] (C9_OnlyNonEmptyYielded /\ C9_TranscribedOnce)
    /\ [][C9_EmptyStep /\ C9_RoutingStep]_vars

C9_Witness ==
    /\ Len(stt_calls) = 2
    /\ stt_calls[1].text = ""
    /\ stt_calls[2].text = "go left"
    /\ yielded = <<"go left">>
    /\ dpc = "while"
    /\ nTexts = 1
    /\ Len(offers) = 2

\* C10: no completed utterance is dropped: once run() is over and no background
\* thread is left to enqueue anything, every utterance the background loop has
\* enqueued has been taken from the queue and transcribed
C10_NoUtteranceDropped ==
    (dpc = "ended" /\ \A t \in Threads : ~IsAlive(t)) =>
        /\ queue = <<>>
        /\ Len(stt_calls) = nHeard

\* ------------------------------------------------- the background listener claims
\* C11: the audio samples the successive calls of get() return are a prefix of the
\* utterances in the order listen() returned them in the background loop: none
\* out of order, none twice
C11_CaptureOrder ==
    \A i \in 1..Len(got) : got[i] = i

\* the step is a call of start() that returns or raises
IsStartCall ==
    /\ called'.op = "start"
    /\ <<called, thread>>' # <<called, thread>>

\* C12: start() raises ListenerRunningError if and only if a background loop is
\* running, and then starts no thread and leaves the loop untouched; otherwise it
\* spawns the background loop
C12_StartFailsIffRunning ==
    [][IsStartCall =>
        /\ (called'.result = "ListenerRunningError") <=> (\E t \in Threads : IsAlive(t))
        /\ called'.result = "ListenerRunningError" => UNCHANGED <<thread, tpc>>
        /\ called'.result = "started" =>
             /\ thread' \in Unborn
             /\ tpc' = [tpc EXCEPT ![thread'] = "while"]]_vars

\* the step begins a call of listen() in thread t
StartsListen(t) == tpc[t] # "listen" /\ tpc'[t] = "listen"

\* C13: once stop() has been called on a loop the loop starts no new listen(); a
\* listen() in progress ends only by returning or raising, never by the stop; and
\* stop returns True exactly when the thread has terminated
C13_NoListenAfterStop ==
    \A t \in Threads : StartsListen(t) => t \notin stopCalled

C13_ListenNotInterrupted ==
    \A t \in Threads :
        (tpc[t] = "listen" /\ tpc'[t] # "listen") => tpc'[t] \in {"put", "eof", "failed"}

C13_ReturnsWhetherTerminated ==
    (stopping # NoStop /\ stopping' = NoStop) =>
        (called'.result = "True" <=> ~IsAlive(stopping.target))

C13_CooperativeStop ==
    [][C13_NoListenAfterStop /\ C13_ListenNotInterrupted
       /\ C13_ReturnsWhetherTerminated]_vars

\* C14: stop() without a timeout does not wait for the thread: while such a call
\* has not returned it can return, a listen() in progress or not
C14_StopDoesNotWait ==
    stopping.timeout = "None" => ENABLED Stop_Return

\* C15: when listen() raises EOFError in the loop nothing is enqueued for that
\* call, the thread is over and makes no further call of listen(), and
\* is_listening is false from then on until the next start()
C15_EofStep ==
    \A t \in Threads :
        (tpc[t] = "listen" /\ tpc'[t] = "eof") =>
            /\ UNCHANGED <<queue, held, nHeard>>
            /\ ~IsAlive(t)'
            /\ ~IsListening'

C15_EofIsFinal ==
    \A t \in Threads : tpc[t] = "eof" => tpc'[t] = "eof"

C15_ListeningAgainOnlyByStart ==
    (~IsListening /\ IsListening') =>
        /\ called' = [op |-> "start", result |-> "started"]
        /\ thread' # thread

C15_EndOfStreamStopsLoop ==
    [][C15_EofStep /\ C15_EofIsFinal /\ C15_ListeningAgainOnlyByStart]_vars

\* C16: when listen() raises anything but EOFError in the loop, the loop logs it
\* and ends, the exception going no further: nothing is enqueued for that call,
\* the thread makes no further call of listen(), and what was enqueued before
\* stays in the queue until a get() takes it
C16_FailureStep ==
    \A t \in Threads :
        (tpc[t] = "listen" /\ tpc'[t] \notin {"listen", "put", "eof"}) =>
            /\ tpc'[t] = "failed"
            /\ UNCHANGED <<queue, held, nHeard, got, error>>

C16_FailureIsFinal ==
    \A t \in Threads : tpc[t] = "failed" => tpc'[t] = "failed"

C16_QueueKeptForConsumers ==
    queue' # queue =>
        \/ \E t \in Threads : IsAlive(t) /\ held[t] # 0 /\ queue' = Append(queue, held[t])
        \/ queue # <<>> /\ queue' = Tail(queue) /\ got' = Append(got, Head(queue))

C16_FailureEndsLoop ==
    [][C16_FailureStep /\ C16_FailureIsFinal /\ C16_QueueKeptForConsumers]_vars

C16_Witness ==
    /\ \E t \in Threads : tpc[t] = "failed"
    /\ \A t \in Threads : ~IsAlive(t)
    /\ queue = <<2>>
    /\ got = <<1>>

\* ------------------------------------------------------------ the listener claims
\* the frames of an annotated sequence, without their states
FramesOf(frames) == [k \in 1..Len(frames) |-> frames[k].frame]

\* the positions of an annotated sequence the filter rule retains: own state
\* LISTEN, or the state of the frame just before LISTEN
RetainedIndices(frames) ==
    {k \in 1..Len(frames) :
        frames[k].state = LISTEN \/ (k > 1 /\ frames[k - 1].state = LISTEN)}

\* the audio of the retained frames among the first k, in read order
RECURSIVE RetainedData(_, _)
RetainedData(frames, k) ==
    IF k = 0 THEN <<>>
    ELSE RetainedData(frames, k - 1) \o
         (IF k \in RetainedIndices(frames)
          THEN [j \in 1..frames[k].frame.len |-> frames[k].frame.id]
          ELSE <<>>)

\* the sum of the durations of the retained frames among the first k
RECURSIVE RetainedDuration(_, _)
RetainedDuration(frames, k) ==
    IF k = 0 THEN 0
    ELSE RetainedDuration(frames, k - 1) +
         (IF k \in RetainedIndices(frames) THEN frames[k].frame.len ELSE 0)

\* the latest listen() was ended by an EOFError of the source
EndedByEof == frame = NoFrame

\* C17: an EOFError of the source's first read in listen() goes on to the caller
\* of listen(); an EOFError of a later read, with at least one frame gathered,
\* ends the reading without an error, and listen() returns the utterance made of
\* the gathered frames
C17_FirstReadFails ==
    (nListens' = nListens + 1 /\ frame_index = Len(source)) =>
        /\ lpc' = "raised"
        /\ UNCHANGED audio_sample

C17_LaterReadFails ==
    (lpc = "loop" /\ frame_state # STOP /\ frame_index = Len(source)) =>
        /\ lpc' = "loop"
        /\ frame_state' = STOP
        /\ Len(all_frames') >= 1

C17_State ==
    /\ lpc = "raised" => (first_index = Len(source) /\ all_frames = <<>>)
    /\ (lpc = "returned" /\ EndedByEof) =>
         /\ Len(all_frames) >= 1
         /\ FramesOf(all_frames) = SubSeq(source, first_index + 1, Len(source))
         /\ audio_sample.data = RetainedData(all_frames, Len(all_frames))

C17_EndOfStreamInListen ==
    [] C17_State /\ [][C17_FirstReadFails /\ C17_LaterReadFails]_vars

C17_Witness ==
    /\ lpc = "returned"
    /\ EndedByEof
    /\ labeler = SilenceBased
    /\ Len(all_frames) = 2
    /\ all_frames[1].state = LISTEN
    /\ all_frames[2].state = LISTEN
    /\ NSeconds(audio_sample) = 3

\* C18: when the labels of a listen() end in STOP, listen() returns a sample whose
\* duration is the sum of the durations of the frames the filter rule retains, and
\* whose audio is theirs, in read order
C18_DurationOfRetained ==
    (lpc = "returned" /\ all_frames # <<>> /\ all_frames[Len(all_frames)].state = STOP) =>
        /\ ~audio_sample.none
        /\ NSeconds(audio_sample) = RetainedDuration(all_frames, Len(all_frames))
        /\ audio_sample.data = RetainedData(all_frames, Len(all_frames))

\* every frame the latest listen() has read is at or below the threshold
AllQuiet ==
    /\ \A k \in 1..Len(all_frames) : all_frames[k].frame.rms <= silence_threshold_rms
    /\ frame.rms <= silence_threshold_rms

\* C19: with the silence-based labeler, as long as every frame read is at or below
\* the threshold every frame is labelled PAUSE, none STOP, and such a listen() ends
\* only by the source's end-of-stream
C19_SilenceNeverStops ==
    (labeler = SilenceBased /\ lpc \in {"loop", "returned"} /\ AllQuiet) =>
        /\ \A k \in 1..Len(all_frames) : all_frames[k].state = PAUSE
        /\ frame # NoFrame => frame_state = PAUSE
        /\ lpc = "returned" => (EndedByEof /\ frame_index = Len(source))

C19_Witness ==
    /\ labeler = SilenceBased
    /\ lpc = "returned"
    /\ AllQuiet
    /\ Len(all_frames) = 3
    /\ all_frames[2].frame.rms = silence_threshold_rms
    /\ audio_sample.none

\* the first listen() of the scenario has returned
ScenarioListened ==
    /\ source \in ScenarioSources
    /\ labeler = SilenceBased
    /\ nListens = 1
    /\ lpc = "returned"

\* C20, as the code has it: on 5 frames of silence, 3 above the threshold and 2 of
\* silence, the first listen() of a silence-based listener returns frames 5 to 8
\* (from 0): the 3 frames above the threshold and one frame of silence after
\* them, 4 frames of audio; frame 9 is not read by it
C20_ScenarioFrames5To8 ==
    ScenarioListened =>
        /\ audio_sample = [none |-> FALSE, data |-> <<5, 6, 7, 8>>]
        /\ NSeconds(audio_sample) = 4
        /\ frame_index = 9

\* C20, as stated: the first listen() returns frames 5 through 9, 5 frames of audio
C20_ScenarioFrames5To9 ==
    ScenarioListened =>
        /\ audio_sample = [none |-> FALSE, data |-> <<5, 6, 7, 8, 9>>]
        /\ NSeconds(audio_sample) = 5

C20_Witness ==
    /\ ScenarioListened
    /\ Len(all_frames) = 9
    /\ all_frames[5].state = PAUSE
    /\ all_frames[5].frame.rms = silence_threshold_rms
    /\ all_frames[9].state = STOP

\* --------------------------------------------------------- the actions' claims
\* the step is a direct call of act() on a disabled action
IsDisabledAct == nCalls' = nCalls + 1 /\ ~acted'.enabled

\* C21: whichever action it is (trigger-table actor, session recorder, mouse
\* action), a call of act(text) on it while its enabled flag is false returns
\* TEXT_NOT_PROCESSED and changes nothing: no handler is called, the recorder's
\* state, list and files stay, and nothing is put on the mouse worker's queue
C21_DisabledActDoesNothing ==
    [][IsDisabledAct =>
         /\ acted'.result = TEXT_NOT_PROCESSED
         /\ UNCHANGED <<handled, recState, recorded, saved, mouse_queue>>]_vars

\* the step is a direct call of the recorder's act()
IsRecorderCall == nCalls' = nCalls + 1 /\ acted'.action = Recorder

\* the record of a text handed on to the other actions: the action that handled it
\* (or none) and its process result, as the delegated calls of act() show
RecordOf(text, log) ==
    LET d == Delegated(log)
    IN  IF d # <<>> /\ Last(d).result # TEXT_NOT_PROCESSED
        THEN [text |-> text, action |-> Last(d).action, process_result |-> Last(d).result]
        ELSE [text |-> text, action |-> NoAction, process_result |-> TEXT_NOT_PROCESSED]

\* C22: a session's log has exactly one record per text the (enabled) recorder
\* receives between "record action" and "stop recording", in the order received,
\* each naming the action that handled the text (or none) and its process result;
\* the two delimiting texts are not recorded: "record action" opens an empty list,
\* every text received while recording appends exactly one record at the end, and
\* "stop recording" writes the list as it stands to one file; nothing else changes
\* the list or the files
C22_OneRecordPerText ==
    [][IF IsRecorderCall /\ enabled /\ recState = RECORDING
       THEN IF Lower(acted'.text) = "stop recording"
            THEN /\ saved' = Append(saved, recorded.items)
                 /\ recorded' = EmptyList
                 /\ recState' = NOT_RECORDING
            ELSE /\ recorded' = [recorded EXCEPT
                                   !.items = Append(@, RecordOf(acted'.text, offers'))]
                 /\ saved' = saved
                 /\ recState' = RECORDING
       ELSE IF IsRecorderCall /\ enabled /\ Lower(acted'.text) = "record action"
       THEN /\ recorded' = EmptyList
            /\ saved' = saved
            /\ recState' = RECORDING
       ELSE UNCHANGED <<recorded, saved, recState>>]_vars

\* "record action", a text an action handles with TEXT_PROCESSED, a text no action
\* handles, "stop recording": the file holds exactly these two records, in order
C22_Witness ==
    /\ Len(saved) = 1
    /\ Len(saved[1]) = 2
    /\ saved[1][1] = [text |-> "go left", action |-> "A",
                      process_result |-> TEXT_PROCESSED]
    /\ saved[1][2] = [text |-> "record action", action |-> NoAction,
                      process_result |-> TEXT_NOT_PROCESSED]
    /\ recState = NOT_RECORDING
    /\ recorded = EmptyList

\* C23: for every AudioSample s and every split point k with 0 < k < n_frames,
\* slice_frame(0, k) with slice_frame(k, n_frames) appended equals s (__eq__)
C23_SliceRoundTrip ==
    rejoined # NoSample => SampleEq(rejoined, original)

\* ------------------------------------------------------ run() and its listener
\* the step runs the loop's body on a text, and a call of act() in it raises
IsRaisingDispatch == IsDispatch /\ Raised(offers')

\* run() is leaving, or has left, with the error of an action
RaisedByAct == error = "ActError"

\* the raise leaves the loop at once, for the finally
C24_RaiseLeavesLoop ==
    [][IsRaisingDispatch => (error' = "ActError" /\ dpc' = "finally")]_vars

\* the raising call is the last call of act() made for that text: what follows a
\* call that raised in the log are only the calls the recorder made inside its own
\* act(), the last of which raised
C24_NoOfferAfterRaise ==
    \A k \in 1..Len(offers) :
        (offers[k].result = RAISES /\ k < Len(offers)) =>
            /\ offers[k].action = Recorder
            /\ \A j \in (k + 1)..Len(offers) : offers[j].by = ByDelegate
            /\ Raised(offers)

\* after the raise no text is taken, transcribed or dispatched, no act() is called,
\* and the error stays until run() has ended with it
C24_NothingAfterRaise ==
    [][RaisedByAct =>
         /\ UNCHANGED <<rvars, got, stt_calls, yielded, error>>
         /\ dpc' \in {"finally", "end_join", "ended"}]_vars

\* C24: an error raised by an action's act() during run() is not caught: it leaves
\* the loop and run(), no action registered after the raising one is offered that
\* text, and no later text is dispatched
C24_ErrorPropagates ==
    /\ C24_RaiseLeavesLoop
    /\ [](C24_NoOfferAfterRaise)
    /\ [](Raised(offers) => RaisedByAct)
    /\ C24_NothingAfterRaise

\* run() has ended with the error of the first registered action, and the second
\* one was not offered the text
C24_Witness ==
    /\ dpc = "ended"
    /\ RaisedByAct
    /\ Len(actions) = 2
    /\ offers = <<Offer(1, "A", RAISES, ByScan)>>

\* C25: run() calls the listener's start() exactly once, before it takes any text,
\* and calls stop_listening exactly once on every way out of its loop, be it the
\* end of the text stream or the error of an action, and not before
C25_StartAndStopOnce ==
    /\ start_calls <= 1
    /\ stop_calls <= 1
    /\ (got # <<>> \/ stt_calls # <<>> \/ nTexts > 0) => start_calls = 1
    /\ dpc \in {"while", "get", "transcribe", "body", "finally"} =>
            (start_calls = 1 /\ stop_calls = 0)
    /\ dpc \in {"end_join", "ended"} => (start_calls = 1 /\ stop_calls = 1)

\* run() has ended with an action's error, having started the listener once and
\* called stop_listening once
C25_Witness ==
    /\ dpc = "ended"
    /\ RaisedByAct
    /\ nTexts > 0
    /\ start_calls = 1
    /\ stop_calls = 1

\* ------------------------------------------------- the read loop and the filter
\* the states of an annotated sequence
StatesOf(frames) == [k \in 1..Len(frames) |-> frames[k].state]

\* the step reads a chunk from the source
IsRead == frame_index' # frame_index

\* where the read loop stands: every chunk read so far in this listen() is in
\* all_frames, one annotated frame each and in read order, but for the one just
\* labelled; no frame in all_frames is labelled STOP but the last one of a listen()
\* that has returned, and a listen() that has returned ended on a STOP label or on
\* the end of the source
C26_OneFramePerChunk ==
    /\ (lpc = "loop" /\ frame # NoFrame) =>
         /\ frame = source[frame_index]
         /\ FramesOf(all_frames) = SubSeq(source, first_index + 1, frame_index - 1)
         /\ \A k \in 1..Len(all_frames) : all_frames[k].state # STOP
    /\ (lpc = "loop" /\ frame = NoFrame) =>
         /\ frame_state = STOP
         /\ frame_index = Len(source)
         /\ FramesOf(all_frames) = SubSeq(source, first_index + 1, frame_index)
         /\ \A k \in 1..Len(all_frames) : all_frames[k].state # STOP
    /\ lpc = "returned" =>
         /\ FramesOf(all_frames) = SubSeq(source, first_index + 1, frame_index)
         /\ \A k \in 1..(Len(all_frames) - 1) : all_frames[k].state # STOP
         /\ \/ ~EndedByEof /\ Last(all_frames).state = STOP
            \/ EndedByEof /\ frame_index = Len(source) /\ Last(all_frames).state # STOP

\* the loop goes on reading while the label is not STOP and the source has a
\* chunk; the end of the source ends it whatever the labeler is; once the label is
\* STOP or the source has ended, listen() returns without another read
C26_LoopSteps ==
    /\ IsRead =>
         /\ frame_index' = frame_index + 1
         /\ lpc' = "loop"
         /\ lpc \in {"idle", "returned"} \/ (lpc = "loop" /\ frame_state # STOP)
    /\ (lpc = "loop" /\ frame_state # STOP /\ ~SourceExhausted) =>
         /\ IsRead
         /\ all_frames' = Append(all_frames, AnnotatedFrame(frame, frame_state))
    /\ (lpc = "loop" /\ frame_state # STOP /\ SourceExhausted) =>
         /\ ~IsRead
         /\ all_frames' = Append(all_frames, AnnotatedFrame(frame, frame_state))
         /\ frame_state' = STOP
         /\ lpc' = "loop"
    /\ (lpc = "loop" /\ frame_state = STOP) =>
         /\ ~IsRead
         /\ lpc' = "returned"

\* C26: the read loop reads chunk after chunk, appending one annotated frame per
\* chunk read, and ends exactly when the labeler returns STOP or the source signals
\* its end; the end of the source ends it whatever the labeler would report, and
\* no chunk is read after either within that listen()
C26_ReadLoop ==
    [] C26_OneFramePerChunk /\ [][C26_LoopSteps]_vars

\* a listen() whose labeler never said STOP has been ended by the end of the
\* source, with every chunk read in all_frames
C26_Witness ==
    /\ lpc = "returned"
    /\ labeler = Configurable
    /\ EndedByEof
    /\ first_index = 0
    /\ Len(all_frames) = MaxFrames
    /\ StatesOf(all_frames) = [k \in 1..MaxFrames |-> IF k = 2 THEN PAUSE ELSE LISTEN]

\* the frames an annotated sequence keeps under the rule "own state LISTEN, or the
\* state of the frame just before LISTEN", among the first k, in their order
RECURSIVE RetainedUpTo(_, _)
RetainedUpTo(frames, k) ==
    IF k = 0 THEN <<>>
    ELSE RetainedUpTo(frames, k - 1) \o
         (IF k \in RetainedIndices(frames) THEN <<frames[k]>> ELSE <<>>)

\* the frames of the source under a labelling
Annotated(states) == [k \in 1..Len(source) |-> AnnotatedFrame(source[k], states[k])]

\* C27: the default filter retains a frame if and only if its own state is LISTEN
\* or the state of the frame just before it is LISTEN; the retained frames keep
\* their order, and the first frame is retained only if it is LISTEN; this for the
\* frames of the source under every labelling, and for what listen() returns
C27_FilterRule ==
    /\ (lpc = "idle" /\ Len(source) <= MaxFrames) =>
         \A states \in [1..Len(source) -> FrameStateEnum] :
            LET kept == FilterAudioSamples(Annotated(states))
            IN  /\ kept = RetainedUpTo(Annotated(states), Len(source))
                /\ (kept # <<>> /\ kept[1].frame = source[1]) => states[1] = LISTEN
    /\ lpc = "returned" =>
         audio_sample = JoinAudioSamples(RetainedUpTo(all_frames, Len(all_frames)))

\* a listen() has returned the first two of three frames labelled LISTEN, PAUSE,
\* PAUSE
C27_Witness ==
    /\ lpc = "returned"
    /\ labeler = Configurable
    /\ StatesOf(all_frames) = <<LISTEN, PAUSE, PAUSE>>
    /\ \A k \in 1..3 : all_frames[k].frame.len = 1
    /\ audio_sample.data = <<all_frames[1].frame.id, all_frames[2].frame.id>>

\* the positions of the LISTEN frames of an annotated sequence
ListenIndices(frames) == {k \in 1..Len(frames) : frames[k].state = LISTEN}

\* the latest listen() has returned, and its labeler is the silence-based one
SilenceListened == lpc = "returned" /\ labeler = SilenceBased

\* the frames the filter kept are LISTEN frames followed by exactly one frame
\* that is not LISTEN
ListenThenOneTrailing(kept) ==
    /\ Len(kept) >= 2
    /\ \A k \in 1..(Len(kept) - 1) : kept[k].state = LISTEN
    /\ Last(kept).state # LISTEN

\* C28, as stated: every utterance of the silence-based labeler is made of all
\* the LISTEN frames followed by exactly one frame that is not LISTEN, and of no
\* frame before the first LISTEN frame
C28_AlwaysOneTrailing ==
    (SilenceListened /\ ~audio_sample.none) =>
        LET kept == FilterAudioSamples(all_frames)
        IN  /\ ListenThenOneTrailing(kept)
            /\ kept = SubSeq(all_frames, Len(all_frames) - Len(kept) + 1, Len(all_frames))
            /\ \A k \in 1..(Len(all_frames) - Len(kept)) : all_frames[k].state = PAUSE

\* C28, amended: the frames read are leading silence (PAUSE), then the LISTEN
\* frames, then the one STOP frame unless the source ended first; the utterance is
\* made of all the LISTEN frames and that one trailing frame where there is one (of
\* the LISTEN frames alone when the source ended right after speech), and of no
\* frame before the first LISTEN frame
C28_OneTrailingUnlessSourceEnded ==
    (SilenceListened /\ ~audio_sample.none) =>
        LET n == Len(all_frames)
            first == CHOOSE k \in ListenIndices(all_frames) :
                        \A j \in ListenIndices(all_frames) : k <= j
            kept == SubSeq(all_frames, first, n)
        IN  /\ ListenIndices(all_frames) # {}
            /\ \A k \in 1..(first - 1) : all_frames[k].state = PAUSE
            /\ audio_sample = JoinAudioSamples(kept)
            /\ IF EndedByEof
               THEN \A k \in 1..Len(kept) : kept[k].state = LISTEN
               ELSE ListenThenOneTrailing(kept) /\ Last(kept).state = STOP

\* leading silence, speech, silence: the utterance is the speech and the one
\* trailing frame
C28_Witness ==
    /\ SilenceListened
    /\ ~EndedByEof
    /\ StatesOf(all_frames) = <<PAUSE, LISTEN, STOP>>
    /\ \A k \in 1..3 : all_frames[k].frame.len = 1
    /\ audio_sample.data = <<all_frames[2].frame.id, all_frames[3].frame.id>>

\* the rule on the whole history: LISTEN above the threshold; else PAUSE if no
\* frame of the history is LISTEN, STOP if one is
SilenceRule(latest_frame, frames) ==
    IF latest_frame.rms > silence_threshold_rms
    THEN LISTEN
    ELSE IF ListenIndices(frames) = {}
    THEN PAUSE
    ELSE STOP

\* C29: the silence-based labeler, which looks at the last frame of the history
\* only, returns what the rule on the whole history returns: for the frame the
\* read loop has just labelled, and for whatever frame comes next after every
\* history the read loop produces, the empty one included
C29_LastFrameTestAgrees ==
    labeler = SilenceBased =>
        /\ (lpc = "loop" /\ frame # NoFrame) =>
                frame_state = SilenceRule(frame, all_frames)
        /\ \A r \in Rms, l \in Lengths :
             LET latest_frame == AudioFrame(frame_index, r, l)
             IN  /\ SilenceBasedLabel(latest_frame, <<>>) = SilenceRule(latest_frame, <<>>)
                 /\ (lpc = "loop" /\ frame_state # STOP) =>
                      LET frames == Append(all_frames, AnnotatedFrame(frame, frame_state))
                      IN  SilenceBasedLabel(latest_frame, frames) =
                              SilenceRule(latest_frame, frames)

\* silence after leading silence and speech has just been labelled STOP
C29_Witness ==
    /\ lpc = "loop"
    /\ labeler = SilenceBased
    /\ StatesOf(all_frames) = <<PAUSE, LISTEN>>
    /\ frame.rms <= silence_threshold_rms
    /\ frame_state = STOP

\* the rule: STOP once the durations of the history and of the latest frame sum to
\* the total or more, or when the latest frame has no length; else LISTEN
TimeRule(total_duration, latest_frame, frames) ==
    IF SumSeconds(frames) + latest_frame.len >= total_duration \/ latest_frame.len = 0
    THEN STOP
    ELSE LISTEN

\* C30: the time-based labeler returns STOP once the accumulated duration (the
\* history's and the latest frame's) reaches the total, or when the latest frame
\* has zero length, else LISTEN; so a listen() reads frames, all LISTEN and short
\* of the total, until the frame with which the duration reaches the total (or
\* one of zero length), which is labelled STOP and is the last one read; only the
\* end of the source ends it earlier
C30_TimeBased ==
    labeler.kind = "time" =>
        /\ (lpc = "loop" /\ frame # NoFrame) =>
                frame_state = TimeRule(labeler.total_duration, frame, all_frames)
        /\ lpc = "returned" =>
             LET n == Len(all_frames)
             IN  /\ \A k \in 1..(n - 1) :
                       /\ all_frames[k].state = LISTEN
                       /\ all_frames[k].frame.len > 0
                       /\ SumSeconds(SubSeq(all_frames, 1, k)) < labeler.total_duration
                 /\ IF EndedByEof
                    THEN /\ all_frames[n].state = LISTEN
                         /\ SumSeconds(all_frames) < labeler.total_duration
                    ELSE /\ all_frames[n].state = STOP
                         /\ \/ SumSeconds(all_frames) >= labeler.total_duration
                            \/ all_frames[n].frame.len = 0

\* a listen() for a total of 3 has read a frame of 1 and then the frame of 2 that
\* reaches the total, labelled STOP, with a frame of the source left unread
C30_Witness ==
    /\ lpc = "returned"
    /\ labeler = TimeBased(3)
    /\ ~EndedByEof
    /\ StatesOf(all_frames) = <<LISTEN, STOP>>
    /\ all_frames[1].frame.len = 1
    /\ all_frames[2].frame.len = 2
    /\ first_index = 0
    /\ Len(source) = 3

\* --------------------------------------------------- where STOP stands in a sequence
\* the listener has one of the two labelers of state_labelers.py
PrebuiltLabeler == labeler.kind \in {"silence", "time"}

\* the positions of the STOP frames of an annotated sequence
StopIndices(frames) == {k \in 1..Len(frames) : frames[k].state = STOP}

\* C31, as stated: the final frame of every sequence listen_frames returns is STOP,
\* no frame but the final one is STOP, and a STOP frame has a LISTEN frame before
\* it
C31_FinalFrameIsStop ==
    (lpc = "returned" /\ PrebuiltLabeler) =>
        /\ Last(all_frames).state = STOP
        /\ StopIndices(all_frames) \subseteq {Len(all_frames)}
        /\ \A k \in StopIndices(all_frames) :
                \E j \in ListenIndices(all_frames) : j < k

\* C31, amended: in every sequence listen_frames returns no frame but the final one
\* is STOP; the final frame is STOP when a label ended the reading, and no frame is
\* STOP when the end of the source ended it; with the silence-based labeler a STOP
\* frame has a LISTEN frame before it, while the time-based labeler labels the
\* first frame STOP when that frame alone reaches the total or has no length
C31_StopOnlyLastUnlessSourceEnded ==
    lpc = "returned" =>
        /\ all_frames # <<>>
        /\ StopIndices(all_frames) \subseteq {Len(all_frames)}
        /\ IF EndedByEof
           THEN StopIndices(all_frames) = {}
           ELSE Last(all_frames).state = STOP
        /\ labeler = SilenceBased =>
             \A k \in StopIndices(all_frames) :
                \E j \in ListenIndices(all_frames) : j < k
        /\ (labeler.kind = "time" /\ Len(all_frames) = 1 /\ ~EndedByEof) =>
             \/ all_frames[1].frame.len >= labeler.total_duration
             \/ all_frames[1].frame.len = 0

\* two frames of speech and the silence that ended the reading: STOP is the final
\* frame and the only one
C31_Witness ==
    /\ lpc = "returned"
    /\ labeler = SilenceBased
    /\ ~EndedByEof
    /\ StatesOf(all_frames) = <<LISTEN, LISTEN, STOP>>

\* ------------------------------------------------------ the recorder, call by call
\* the step is a call of the enabled recorder's act() while it is recording, with a
\* text other than "stop recording"
IsRecordingCall ==
    /\ IsRecorderCall
    /\ enabled
    /\ recState = RECORDING
    /\ Lower(acted'.text) # "stop recording"

\* no delegated call of act() claimed the text
NobodyHandled(log) ==
    \A k \in 1..Len(log) : log[k].result = TEXT_NOT_PROCESSED

\* C32: while the (enabled) recorder is recording, every text other than "stop
\* recording" makes act() return PROCESS_FUTURE_TEXT and leaves it in RECORDING,
\* whether the delegated _act_on_text found a handling action or not; a text no
\* action handled is recorded all the same, with no action and the result
\* TEXT_NOT_PROCESSED; no file is written
C32_RecordingGoesOn ==
    [][IsRecordingCall =>
         /\ acted'.result = PROCESS_FUTURE_TEXT
         /\ recState' = RECORDING
         /\ saved' = saved
         /\ Len(recorded'.items) = Len(recorded.items) + 1
         /\ Last(recorded'.items).text = acted'.text
         /\ IF NobodyHandled(offers')
            THEN /\ Last(recorded'.items).action = NoAction
                 /\ Last(recorded'.items).process_result = TEXT_NOT_PROCESSED
            ELSE /\ Last(recorded'.items).action = Last(offers').action
                 /\ Last(recorded'.items).process_result = Last(offers').result
                 /\ Last(offers').result # TEXT_NOT_PROCESSED]_vars

\* the recording recorder was handed a text the other action declined: it answered
\* PROCESS_FUTURE_TEXT, is still recording, and the text is on its list
C32_Witness ==
    /\ acted = [action |-> Recorder, text |-> "go left", enabled |-> TRUE,
                result |-> PROCESS_FUTURE_TEXT]
    /\ recState = RECORDING
    /\ offers = <<Offer(1, "A", TEXT_NOT_PROCESSED, ByDelegate)>>
    /\ recorded.items = <<[text |-> "go left", action |-> NoAction,
                           process_result |-> TEXT_NOT_PROCESSED]>>

\* the step is a call of the recorder's act() while it is not recording
IsIdleCall == IsRecorderCall /\ recState = NOT_RECORDING

\* C33: when the recorder is not recording, "stop recording" and every other text
\* but "record action" (texts are compared in lower case, as act() compares them)
\* returns TEXT_NOT_PROCESSED and leaves the recorder as it was: NOT_RECORDING, its
\* list untouched, no file written, no other action asked; "record action" is the
\* only text that moves it to RECORDING, and only a call of act() does
C33_OnlyRecordActionStarts ==
    [][/\ IsIdleCall =>
            IF enabled /\ Lower(acted'.text) = "record action"
            THEN /\ acted'.result = PROCESS_FUTURE_TEXT
                 /\ recState' = RECORDING
                 /\ recorded' = EmptyList
                 /\ saved' = saved
            ELSE /\ acted'.result = TEXT_NOT_PROCESSED
                 /\ offers' = <<>>
                 /\ UNCHANGED <<recState, recorded, saved>>
       /\ (recState = NOT_RECORDING /\ recState' = RECORDING) =>
            /\ IsRecorderCall
            /\ Lower(acted'.text) = "record action"]_vars

\* a recorder that has never recorded was told to stop: it declined, and nothing
\* about it changed
C33_Witness ==
    /\ acted = [action |-> Recorder, text |-> "Stop Recording", enabled |-> TRUE,
                result |-> TEXT_NOT_PROCESSED]
    /\ recState = NOT_RECORDING
    /\ recorded = NoList
    /\ saved = <<>>

\* ---------------------------------------------------------- the capture loops
\* the background threads that are inside a call of listen() on the wrapped
\* listener
InListen == {t \in Threads : tpc[t] = "listen"}

\* C37: after any sequence of start() and stop(timeout) calls at most one capture
\* loop publishes to the queue: no two background threads are inside listen() on
\* the wrapped listener at the same time
C37_OneCaptureLoop ==
    Cardinality(InListen) <= 1

\* ------------------------------------------------------ what listen() hands over
\* C38: what listen() returns, and the background loop enqueues, is an AudioSample
\* of at least one frame, never None and never empty, also when every frame read
\* before the end of the source was leading silence or when the first frame is
\* labelled STOP
C38_ListenReturnsSample ==
    lpc = "returned" =>
        /\ ~audio_sample.none
        /\ audio_sample.data # <<>>

\* ------------------------------------------------------ the end of the consume loop
\* _get_transcribed_text is inside self.listener.get() with nothing in the queue
\* and no background loop left to put anything
BlockedForever ==
    /\ dpc = "get"
    /\ queue = <<>>
    /\ \A t \in Threads : ~IsAlive(t)

\* C36: the consume loop terminates: in no interleaving of the background loop's
\* exit with the test of the while condition is the dispatcher left in get() on an
\* empty queue with no producer, and once the loop has ended and the queue is
\* drained the text stream finishes without an error of its own, so that run()
\* returns
C36_ConsumeLoopTerminates ==
    /\ ~BlockedForever
    /\ error # "AttributeError"

\* --------------------------------------------------- the focus during a recording
\* the recorder is one of the registered actions
RecorderRegistered == \E i \in 1..Len(actions) : actions[i] = Recorder

\* a recording recorder holds the focus
RecordingHoldsFocus == recState = RECORDING => focus = Recorder

\* C39: in a run where the recorder is registered and stays enabled, after every
\* dispatched text a recorder in RECORDING holds the dispatcher's focus, and a text
\* dispatched during a recording reaches another action only through the
\* recorder's own delegation
C39_RecordingKeepsFocus ==
    [][(IsDispatch /\ enabled /\ RecorderRegistered) =>
         /\ RecordingHoldsFocus'
         /\ recState = RECORDING =>
              \A k \in 1..Len(offers') :
                 offers'[k].action # Recorder => offers'[k].by = ByDelegate]_vars

\* ------------------------------------------------------ the collaborators swapped
\* the sequence grew by at most one item, at its end
GrewAtEnd(before, now) ==
    \/ now = before
    \/ Len(now) = Len(before) + 1 /\ SubSeq(now, 1, Len(before)) = before

\* whatever the interleaving: every get() the stream calls after set_listener has
\* put the new listener in place is a get() on the new listener; if the stream was
\* not inside a get() at that moment, every audio it obtains afterwards comes from
\* the new listener; every audio obtained is transcribed once, by the engine that
\* is in place when its transcription begins; and once set_listener is past its
\* stop_listening the previous listener is not listening
C34_AfterSwap ==
    /\ \A k \in 1..Len(pulls) : pulls[k].called_after => pulls[k].audio.bl = 2
    /\ setting.during # "getting" =>
         \A k \in 1..Len(pulls) : pulls[k].returned_after => pulls[k].audio.bl = 2
    /\ Len(transcriptions) = Len(pulls) - (IF dpc = "transcribe" THEN 1 ELSE 0)
    /\ \A k \in 1..Len(transcriptions) :
         /\ transcriptions[k].audio = pulls[k].audio
         /\ transcriptions[k].engine = (IF transcriptions[k].after THEN 2 ELSE 1)
    /\ setting.at \in {"assign", "start", "done"} => ~IsListeningOn(1)

\* what the stream has pulled, transcribed and yielded is never changed by a swap,
\* only added to; and once the new listener is in place (the stream not inside a
\* get() at that moment) the previous listener's queue stays as it is: what it
\* still holds is not consumed
C34_KeepsPast ==
    /\ GrewAtEnd(pulls, pulls')
    /\ GrewAtEnd(transcriptions, transcriptions')
    /\ GrewAtEnd(yielded, yielded')
    /\ (listener # listener' \/ speech_to_text # speech_to_text') =>
         UNCHANGED <<pulls, transcriptions, yielded, queues>>
    /\ (ListenerSet /\ setting.during # "getting") => queues'[1] = queues[1]

\* C34: the collaborators are swapped mid-run: after set_listener(new) every later
\* audio the text stream pulls comes from the new listener, the previous listener
\* is stopped if it was listening and what its queue still holds is no longer
\* consumed; after speech_to_text is assigned every later utterance is transcribed
\* by the new engine; what was yielded before is unaffected
C34_HotSwap ==
    [] C34_AfterSwap /\ [][C34_KeepsPast]_vars

\* the stream took the first utterance of the first listener and had the first
\* engine transcribe it; then both collaborators were swapped, the first listener
\* with an utterance still in its queue; the stream's next audio is the new
\* listener's, transcribed by the new engine
C34_Witness ==
    /\ Len(pulls) = 2
    /\ pulls[1] = [audio |-> [bl |-> 1, n |-> 1], called_after |-> FALSE,
                   returned_after |-> FALSE]
    /\ pulls[2] = [audio |-> [bl |-> 2, n |-> 1], called_after |-> TRUE,
                   returned_after |-> TRUE]
    /\ queues[1] = <<[bl |-> 1, n |-> 2]>>
    /\ Len(transcriptions) = 2
    /\ transcriptions[1].engine = 1
    /\ transcriptions[2].engine = 2
    /\ setting.at = "done"
    /\ setting.during = "body"

\* ------------------------------------------------- the loop's test of the flag
\* C35: in every interleaving of the background loop evaluating is_listening with
\* the caller's stop() and start(), the evaluation yields true or false: no loop
\* ends in the AttributeError of calling is_alive() on None
C35_IsListeningNeverFails ==
    \A t \in Threads : tpc[t] # "attribute_error"

\* ------------------------------------------------------ one session after another
\* the texts of the records of a list, in the list's order
RecordedTexts(items) == [i \in 1..Len(items) |-> items[i].text]

\* the step writes a file
Saves == Len(saved') = Len(saved) + 1

\* a recorder that is not recording holds no record
C40_ListEmptyBetweenSessions ==
    recState = NOT_RECORDING => recorded.items = <<>>

\* a file written holds the texts of the session it ends, and the files written
\* before stay as they were
C40_FileHoldsItsSession ==
    /\ Len(saved') >= Len(saved)
    /\ SubSeq(saved', 1, Len(saved)) = saved
    /\ Len(saved') <= Len(saved) + 1
    /\ Saves =>
        /\ acted'.text \in {"Stop Recording"}
        /\ RecordedTexts(saved'[Len(saved')]) = session
        /\ recorded' = EmptyList
        /\ recState' = NOT_RECORDING

\* C40: recording sessions do not leak into each other: after "stop recording" the
\* recorder's list in memory is empty, and over any sequence of sessions the file
\* written at the end of a session holds the texts received during that session
\* and none of an earlier one
C40_SessionsDoNotLeak ==
    [] C40_ListEmptyBetweenSessions /\ [][C40_FileHoldsItsSession]_vars

\* two sessions were saved, each file with the one text of its own session
C40_Witness ==
    /\ Len(saved) = 2
    /\ RecordedTexts(saved[1]) = <<"go left">>
    /\ RecordedTexts(saved[2]) = <<"record action">>
    /\ session = <<"record action">>
    /\ recState = NOT_RECORDING
    /\ recorded = EmptyList

====
